---------------------------- MODULE Spec2Model ----------------------------
(***************************************************************************)
(* A model of zedit: the per-line syntax tokenizer (src/src/syntax.rs),    *)
(* the line-based text buffer (src/src/buffer.rs) and the key handlers of  *)
(* the editor that mutate the buffer (src/src/editor.rs).                  *)
(*                                                                         *)
(* Text is a sequence of one-character strings.  The source indexes from   *)
(* 0; the operators At and Slice translate to TLA+'s 1-based sequences, so *)
(* every index variable below carries the value it has in the source.      *)
(***************************************************************************)
EXTENDS Integers, Sequences, FiniteSets, TLC

(***************************************************************************)
(* Option values.  Option<&str> markers are never empty in the table, so   *)
(* None is the empty sequence; Option<char> None is a string that is not   *)
(* a character.                                                            *)
(***************************************************************************)
NoMarker == << >>

NoMultiLine == [start |-> << >>, end |-> << >>]

NoChar == "None"

\* The backquote character, which a TLA+ string literal cannot hold.
Backtick == "BACKTICK"

(***************************************************************************)
(* The language table, syntax.rs lines 63-369.                             *)
(***************************************************************************)
RUST ==
    [name |-> "Rust",
     extensions |-> <<"rs">>,
     keywords |->
       {<<"a", "s">>, <<"a", "s", "y", "n", "c">>, <<"a", "w", "a", "i", "t">>,
        <<"b", "r", "e", "a", "k">>, <<"c", "o", "n", "s", "t">>,
        <<"c", "o", "n", "t", "i", "n", "u", "e">>, <<"c", "r", "a", "t", "e">>,
        <<"d", "y", "n">>, <<"e", "l", "s", "e">>, <<"e", "n", "u", "m">>,
        <<"e", "x", "t", "e", "r", "n">>, <<"f", "a", "l", "s", "e">>, <<"f", "n">>,
        <<"f", "o", "r">>, <<"i", "f">>, <<"i", "m", "p", "l">>, <<"i", "n">>,
        <<"l", "e", "t">>, <<"l", "o", "o", "p">>, <<"m", "a", "t", "c", "h">>,
        <<"m", "o", "d">>, <<"m", "o", "v", "e">>, <<"m", "u", "t">>, <<"p", "u", "b">>,
        <<"r", "e", "f">>, <<"r", "e", "t", "u", "r", "n">>, <<"s", "e", "l", "f">>,
        <<"S", "e", "l", "f">>, <<"s", "t", "a", "t", "i", "c">>,
        <<"s", "t", "r", "u", "c", "t">>, <<"s", "u", "p", "e", "r">>,
        <<"t", "r", "a", "i", "t">>, <<"t", "r", "u", "e">>, <<"t", "y", "p", "e">>,
        <<"u", "n", "s", "a", "f", "e">>, <<"u", "s", "e">>, <<"w", "h", "e", "r", "e">>,
        <<"w", "h", "i", "l", "e">>, <<"y", "i", "e", "l", "d">>},
     types |->
       {<<"b", "o", "o", "l">>, <<"c", "h", "a", "r">>, <<"f", "3", "2">>, <<"f", "6", "4">>,
        <<"i", "8">>, <<"i", "1", "6">>, <<"i", "3", "2">>, <<"i", "6", "4">>,
        <<"i", "1", "2", "8">>, <<"i", "s", "i", "z", "e">>, <<"s", "t", "r">>, <<"u", "8">>,
        <<"u", "1", "6">>, <<"u", "3", "2">>, <<"u", "6", "4">>, <<"u", "1", "2", "8">>,
        <<"u", "s", "i", "z", "e">>, <<"S", "t", "r", "i", "n", "g">>, <<"V", "e", "c">>,
        <<"O", "p", "t", "i", "o", "n">>, <<"R", "e", "s", "u", "l", "t">>, <<"B", "o", "x">>,
        <<"R", "c">>, <<"A", "r", "c">>, <<"C", "e", "l", "l">>,
        <<"R", "e", "f", "C", "e", "l", "l">>, <<"H", "a", "s", "h", "M", "a", "p">>,
        <<"H", "a", "s", "h", "S", "e", "t">>, <<"B", "T", "r", "e", "e", "M", "a", "p">>,
        <<"B", "T", "r", "e", "e", "S", "e", "t">>},
     constants |->
       {<<"N", "o", "n", "e">>, <<"S", "o", "m", "e">>, <<"O", "k">>, <<"E", "r", "r">>,
        <<"t", "r", "u", "e">>, <<"f", "a", "l", "s", "e">>},
     single_line_comment |-> <<"/", "/">>,
     multi_line_comment |-> [start |-> <<"/", "*">>, end |-> <<"*", "/">>],
     string_delimiters |-> {"\""},
     char_delimiter |-> "'"]

PYTHON ==
    [name |-> "Python",
     extensions |-> <<"py", "pyw", "pyi">>,
     keywords |->
       {<<"a", "n", "d">>, <<"a", "s">>, <<"a", "s", "s", "e", "r", "t">>,
        <<"a", "s", "y", "n", "c">>, <<"a", "w", "a", "i", "t">>, <<"b", "r", "e", "a", "k">>,
        <<"c", "l", "a", "s", "s">>, <<"c", "o", "n", "t", "i", "n", "u", "e">>,
        <<"d", "e", "f">>, <<"d", "e", "l">>, <<"e", "l", "i", "f">>, <<"e", "l", "s", "e">>,
        <<"e", "x", "c", "e", "p", "t">>, <<"f", "i", "n", "a", "l", "l", "y">>,
        <<"f", "o", "r">>, <<"f", "r", "o", "m">>, <<"g", "l", "o", "b", "a", "l">>,
        <<"i", "f">>, <<"i", "m", "p", "o", "r", "t">>, <<"i", "n">>, <<"i", "s">>,
        <<"l", "a", "m", "b", "d", "a">>, <<"n", "o", "n", "l", "o", "c", "a", "l">>,
        <<"n", "o", "t">>, <<"o", "r">>, <<"p", "a", "s", "s">>, <<"r", "a", "i", "s", "e">>,
        <<"r", "e", "t", "u", "r", "n">>, <<"t", "r", "y">>, <<"w", "h", "i", "l", "e">>,
        <<"w", "i", "t", "h">>, <<"y", "i", "e", "l", "d">>},
     types |->
       {<<"i", "n", "t">>, <<"f", "l", "o", "a", "t">>, <<"s", "t", "r">>,
        <<"b", "o", "o", "l">>, <<"l", "i", "s", "t">>, <<"d", "i", "c", "t">>,
        <<"s", "e", "t">>, <<"t", "u", "p", "l", "e">>, <<"b", "y", "t", "e", "s">>,
        <<"b", "y", "t", "e", "a", "r", "r", "a", "y">>, <<"c", "o", "m", "p", "l", "e", "x">>,
        <<"f", "r", "o", "z", "e", "n", "s", "e", "t">>, <<"o", "b", "j", "e", "c", "t">>,
        <<"t", "y", "p", "e">>},
     constants |->
       {<<"T", "r", "u", "e">>, <<"F", "a", "l", "s", "e">>, <<"N", "o", "n", "e">>},
     single_line_comment |-> <<"#">>,
     multi_line_comment |-> NoMultiLine,
     string_delimiters |-> {"\"", "'"},
     char_delimiter |-> NoChar]

JAVASCRIPT ==
    [name |-> "JavaScript",
     extensions |-> <<"js", "jsx", "mjs", "cjs">>,
     keywords |->
       {<<"a", "s", "y", "n", "c">>, <<"a", "w", "a", "i", "t">>, <<"b", "r", "e", "a", "k">>,
        <<"c", "a", "s", "e">>, <<"c", "a", "t", "c", "h">>, <<"c", "l", "a", "s", "s">>,
        <<"c", "o", "n", "s", "t">>, <<"c", "o", "n", "t", "i", "n", "u", "e">>,
        <<"d", "e", "b", "u", "g", "g", "e", "r">>, <<"d", "e", "f", "a", "u", "l", "t">>,
        <<"d", "e", "l", "e", "t", "e">>, <<"d", "o">>, <<"e", "l", "s", "e">>,
        <<"e", "x", "p", "o", "r", "t">>, <<"e", "x", "t", "e", "n", "d", "s">>,
        <<"f", "i", "n", "a", "l", "l", "y">>, <<"f", "o", "r">>,
        <<"f", "u", "n", "c", "t", "i", "o", "n">>, <<"i", "f">>,
        <<"i", "m", "p", "o", "r", "t">>, <<"i", "n">>,
        <<"i", "n", "s", "t", "a", "n", "c", "e", "o", "f">>, <<"l", "e", "t">>,
        <<"n", "e", "w">>, <<"o", "f">>, <<"r", "e", "t", "u", "r", "n">>,
        <<"s", "t", "a", "t", "i", "c">>, <<"s", "u", "p", "e", "r">>,
        <<"s", "w", "i", "t", "c", "h">>, <<"t", "h", "i", "s">>, <<"t", "h", "r", "o", "w">>,
        <<"t", "r", "y">>, <<"t", "y", "p", "e", "o", "f">>, <<"v", "a", "r">>,
        <<"v", "o", "i", "d">>, <<"w", "h", "i", "l", "e">>, <<"w", "i", "t", "h">>,
        <<"y", "i", "e", "l", "d">>},
     types |->
       {<<"A", "r", "r", "a", "y">>, <<"B", "o", "o", "l", "e", "a", "n">>,
        <<"D", "a", "t", "e">>, <<"E", "r", "r", "o", "r">>,
        <<"F", "u", "n", "c", "t", "i", "o", "n">>, <<"M", "a", "p">>,
        <<"N", "u", "m", "b", "e", "r">>, <<"O", "b", "j", "e", "c", "t">>,
        <<"P", "r", "o", "m", "i", "s", "e">>, <<"R", "e", "g", "E", "x", "p">>,
        <<"S", "e", "t">>, <<"S", "t", "r", "i", "n", "g">>, <<"S", "y", "m", "b", "o", "l">>,
        <<"W", "e", "a", "k", "M", "a", "p">>, <<"W", "e", "a", "k", "S", "e", "t">>},
     constants |->
       {<<"t", "r", "u", "e">>, <<"f", "a", "l", "s", "e">>, <<"n", "u", "l", "l">>,
        <<"u", "n", "d", "e", "f", "i", "n", "e", "d">>, <<"N", "a", "N">>,
        <<"I", "n", "f", "i", "n", "i", "t", "y">>},
     single_line_comment |-> <<"/", "/">>,
     multi_line_comment |-> [start |-> <<"/", "*">>, end |-> <<"*", "/">>],
     string_delimiters |-> {"\"", "'", Backtick},
     char_delimiter |-> NoChar]

TYPESCRIPT ==
    [name |-> "TypeScript",
     extensions |-> <<"ts", "tsx">>,
     keywords |->
       {<<"a", "b", "s", "t", "r", "a", "c", "t">>, <<"a", "s">>, <<"a", "s", "y", "n", "c">>,
        <<"a", "w", "a", "i", "t">>, <<"b", "r", "e", "a", "k">>, <<"c", "a", "s", "e">>,
        <<"c", "a", "t", "c", "h">>, <<"c", "l", "a", "s", "s">>, <<"c", "o", "n", "s", "t">>,
        <<"c", "o", "n", "t", "i", "n", "u", "e">>, <<"d", "e", "b", "u", "g", "g", "e", "r">>,
        <<"d", "e", "c", "l", "a", "r", "e">>, <<"d", "e", "f", "a", "u", "l", "t">>,
        <<"d", "e", "l", "e", "t", "e">>, <<"d", "o">>, <<"e", "l", "s", "e">>,
        <<"e", "n", "u", "m">>, <<"e", "x", "p", "o", "r", "t">>,
        <<"e", "x", "t", "e", "n", "d", "s">>, <<"f", "i", "n", "a", "l", "l", "y">>,
        <<"f", "o", "r">>, <<"f", "r", "o", "m">>, <<"f", "u", "n", "c", "t", "i", "o", "n">>,
        <<"i", "f">>, <<"i", "m", "p", "l", "e", "m", "e", "n", "t", "s">>,
        <<"i", "m", "p", "o", "r", "t">>, <<"i", "n">>,
        <<"i", "n", "s", "t", "a", "n", "c", "e", "o", "f">>,
        <<"i", "n", "t", "e", "r", "f", "a", "c", "e">>, <<"l", "e", "t">>,
        <<"m", "o", "d", "u", "l", "e">>, <<"n", "a", "m", "e", "s", "p", "a", "c", "e">>,
        <<"n", "e", "w">>, <<"o", "f">>, <<"p", "a", "c", "k", "a", "g", "e">>,
        <<"p", "r", "i", "v", "a", "t", "e">>, <<"p", "r", "o", "t", "e", "c", "t", "e", "d">>,
        <<"p", "u", "b", "l", "i", "c">>, <<"r", "e", "a", "d", "o", "n", "l", "y">>,
        <<"r", "e", "t", "u", "r", "n">>, <<"s", "t", "a", "t", "i", "c">>,
        <<"s", "u", "p", "e", "r">>, <<"s", "w", "i", "t", "c", "h">>, <<"t", "h", "i", "s">>,
        <<"t", "h", "r", "o", "w">>, <<"t", "r", "y">>, <<"t", "y", "p", "e">>,
        <<"t", "y", "p", "e", "o", "f">>, <<"v", "a", "r">>, <<"v", "o", "i", "d">>,
        <<"w", "h", "i", "l", "e">>, <<"w", "i", "t", "h">>, <<"y", "i", "e", "l", "d">>},
     types |->
       {<<"a", "n", "y">>, <<"b", "o", "o", "l", "e", "a", "n">>, <<"n", "e", "v", "e", "r">>,
        <<"n", "u", "m", "b", "e", "r">>, <<"o", "b", "j", "e", "c", "t">>,
        <<"s", "t", "r", "i", "n", "g">>, <<"s", "y", "m", "b", "o", "l">>,
        <<"u", "n", "k", "n", "o", "w", "n">>, <<"v", "o", "i", "d">>,
        <<"A", "r", "r", "a", "y">>, <<"B", "o", "o", "l", "e", "a", "n">>,
        <<"D", "a", "t", "e">>, <<"E", "r", "r", "o", "r">>,
        <<"F", "u", "n", "c", "t", "i", "o", "n">>, <<"M", "a", "p">>,
        <<"N", "u", "m", "b", "e", "r">>, <<"O", "b", "j", "e", "c", "t">>,
        <<"P", "r", "o", "m", "i", "s", "e">>, <<"R", "e", "g", "E", "x", "p">>,
        <<"S", "e", "t">>, <<"S", "t", "r", "i", "n", "g">>, <<"S", "y", "m", "b", "o", "l">>,
        <<"W", "e", "a", "k", "M", "a", "p">>, <<"W", "e", "a", "k", "S", "e", "t">>},
     constants |->
       {<<"t", "r", "u", "e">>, <<"f", "a", "l", "s", "e">>, <<"n", "u", "l", "l">>,
        <<"u", "n", "d", "e", "f", "i", "n", "e", "d">>, <<"N", "a", "N">>,
        <<"I", "n", "f", "i", "n", "i", "t", "y">>},
     single_line_comment |-> <<"/", "/">>,
     multi_line_comment |-> [start |-> <<"/", "*">>, end |-> <<"*", "/">>],
     string_delimiters |-> {"\"", "'", Backtick},
     char_delimiter |-> NoChar]

C ==
    [name |-> "C",
     extensions |-> <<"c", "h">>,
     keywords |->
       {<<"a", "u", "t", "o">>, <<"b", "r", "e", "a", "k">>, <<"c", "a", "s", "e">>,
        <<"c", "o", "n", "s", "t">>, <<"c", "o", "n", "t", "i", "n", "u", "e">>,
        <<"d", "e", "f", "a", "u", "l", "t">>, <<"d", "o">>, <<"e", "l", "s", "e">>,
        <<"e", "n", "u", "m">>, <<"e", "x", "t", "e", "r", "n">>, <<"f", "o", "r">>,
        <<"g", "o", "t", "o">>, <<"i", "f">>, <<"i", "n", "l", "i", "n", "e">>,
        <<"r", "e", "g", "i", "s", "t", "e", "r">>, <<"r", "e", "s", "t", "r", "i", "c", "t">>,
        <<"r", "e", "t", "u", "r", "n">>, <<"s", "i", "z", "e", "o", "f">>,
        <<"s", "t", "a", "t", "i", "c">>, <<"s", "t", "r", "u", "c", "t">>,
        <<"s", "w", "i", "t", "c", "h">>, <<"t", "y", "p", "e", "d", "e", "f">>,
        <<"u", "n", "i", "o", "n">>, <<"v", "o", "l", "a", "t", "i", "l", "e">>,
        <<"w", "h", "i", "l", "e">>, <<"_", "A", "l", "i", "g", "n", "a", "s">>,
        <<"_", "A", "l", "i", "g", "n", "o", "f">>, <<"_", "A", "t", "o", "m", "i", "c">>,
        <<"_", "B", "o", "o", "l">>, <<"_", "C", "o", "m", "p", "l", "e", "x">>,
        <<"_", "G", "e", "n", "e", "r", "i", "c">>,
        <<"_", "I", "m", "a", "g", "i", "n", "a", "r", "y">>,
        <<"_", "N", "o", "r", "e", "t", "u", "r", "n">>,
        <<"_", "S", "t", "a", "t", "i", "c", "_", "a", "s", "s", "e", "r", "t">>,
        <<"_", "T", "h", "r", "e", "a", "d", "_", "l", "o", "c", "a", "l">>},
     types |->
       {<<"c", "h", "a", "r">>, <<"d", "o", "u", "b", "l", "e">>, <<"f", "l", "o", "a", "t">>,
        <<"i", "n", "t">>, <<"l", "o", "n", "g">>, <<"s", "h", "o", "r", "t">>,
        <<"s", "i", "g", "n", "e", "d">>, <<"u", "n", "s", "i", "g", "n", "e", "d">>,
        <<"v", "o", "i", "d">>, <<"s", "i", "z", "e", "_", "t">>,
        <<"s", "s", "i", "z", "e", "_", "t">>, <<"p", "t", "r", "d", "i", "f", "f", "_", "t">>,
        <<"i", "n", "t", "8", "_", "t">>, <<"i", "n", "t", "1", "6", "_", "t">>,
        <<"i", "n", "t", "3", "2", "_", "t">>, <<"i", "n", "t", "6", "4", "_", "t">>,
        <<"u", "i", "n", "t", "8", "_", "t">>, <<"u", "i", "n", "t", "1", "6", "_", "t">>,
        <<"u", "i", "n", "t", "3", "2", "_", "t">>, <<"u", "i", "n", "t", "6", "4", "_", "t">>},
     constants |->
       {<<"N", "U", "L", "L">>, <<"t", "r", "u", "e">>, <<"f", "a", "l", "s", "e">>,
        <<"E", "O", "F">>},
     single_line_comment |-> <<"/", "/">>,
     multi_line_comment |-> [start |-> <<"/", "*">>, end |-> <<"*", "/">>],
     string_delimiters |-> {"\""},
     char_delimiter |-> "'"]

CPP ==
    [name |-> "C++",
     extensions |-> <<"cpp", "cc", "cxx", "hpp", "hh", "hxx", "h++">>,
     keywords |->
       {<<"a", "l", "i", "g", "n", "a", "s">>, <<"a", "l", "i", "g", "n", "o", "f">>,
        <<"a", "n", "d">>, <<"a", "n", "d", "_", "e", "q">>, <<"a", "s", "m">>,
        <<"a", "u", "t", "o">>, <<"b", "i", "t", "a", "n", "d">>, <<"b", "i", "t", "o", "r">>,
        <<"b", "r", "e", "a", "k">>, <<"c", "a", "s", "e">>, <<"c", "a", "t", "c", "h">>,
        <<"c", "l", "a", "s", "s">>, <<"c", "o", "m", "p", "l">>,
        <<"c", "o", "n", "c", "e", "p", "t">>, <<"c", "o", "n", "s", "t">>,
        <<"c", "o", "n", "s", "t", "e", "v", "a", "l">>,
        <<"c", "o", "n", "s", "t", "e", "x", "p", "r">>,
        <<"c", "o", "n", "s", "t", "i", "n", "i", "t">>,
        <<"c", "o", "n", "s", "t", "_", "c", "a", "s", "t">>,
        <<"c", "o", "n", "t", "i", "n", "u", "e">>, <<"c", "o", "_", "a", "w", "a", "i", "t">>,
        <<"c", "o", "_", "r", "e", "t", "u", "r", "n">>,
        <<"c", "o", "_", "y", "i", "e", "l", "d">>, <<"d", "e", "c", "l", "t", "y", "p", "e">>,
        <<"d", "e", "f", "a", "u", "l", "t">>, <<"d", "e", "l", "e", "t", "e">>, <<"d", "o">>,
        <<"d", "y", "n", "a", "m", "i", "c", "_", "c", "a", "s", "t">>, <<"e", "l", "s", "e">>,
        <<"e", "n", "u", "m">>, <<"e", "x", "p", "l", "i", "c", "i", "t">>,
        <<"e", "x", "p", "o", "r", "t">>, <<"e", "x", "t", "e", "r", "n">>, <<"f", "o", "r">>,
        <<"f", "r", "i", "e", "n", "d">>, <<"g", "o", "t", "o">>, <<"i", "f">>,
        <<"i", "n", "l", "i", "n", "e">>, <<"m", "u", "t", "a", "b", "l", "e">>,
        <<"n", "a", "m", "e", "s", "p", "a", "c", "e">>, <<"n", "e", "w">>,
        <<"n", "o", "e", "x", "c", "e", "p", "t">>, <<"n", "o", "t">>,
        <<"n", "o", "t", "_", "e", "q">>, <<"n", "u", "l", "l", "p", "t", "r">>,
        <<"o", "p", "e", "r", "a", "t", "o", "r">>, <<"o", "r">>, <<"o", "r", "_", "e", "q">>,
        <<"p", "r", "i", "v", "a", "t", "e">>, <<"p", "r", "o", "t", "e", "c", "t", "e", "d">>,
        <<"p", "u", "b", "l", "i", "c">>, <<"r", "e", "g", "i", "s", "t", "e", "r">>,
        <<"r", "e", "i", "n", "t", "e", "r", "p", "r", "e", "t", "_", "c", "a", "s", "t">>,
        <<"r", "e", "q", "u", "i", "r", "e", "s">>, <<"r", "e", "t", "u", "r", "n">>,
        <<"s", "i", "z", "e", "o", "f">>, <<"s", "t", "a", "t", "i", "c">>,
        <<"s", "t", "a", "t", "i", "c", "_", "a", "s", "s", "e", "r", "t">>,
        <<"s", "t", "a", "t", "i", "c", "_", "c", "a", "s", "t">>,
        <<"s", "t", "r", "u", "c", "t">>, <<"s", "w", "i", "t", "c", "h">>,
        <<"t", "e", "m", "p", "l", "a", "t", "e">>, <<"t", "h", "i", "s">>,
        <<"t", "h", "r", "e", "a", "d", "_", "l", "o", "c", "a", "l">>,
        <<"t", "h", "r", "o", "w">>, <<"t", "r", "y">>, <<"t", "y", "p", "e", "d", "e", "f">>,
        <<"t", "y", "p", "e", "i", "d">>, <<"t", "y", "p", "e", "n", "a", "m", "e">>,
        <<"u", "n", "i", "o", "n">>, <<"u", "s", "i", "n", "g">>,
        <<"v", "i", "r", "t", "u", "a", "l">>, <<"v", "o", "l", "a", "t", "i", "l", "e">>,
        <<"w", "h", "i", "l", "e">>, <<"x", "o", "r">>, <<"x", "o", "r", "_", "e", "q">>},
     types |->
       {<<"b", "o", "o", "l">>, <<"c", "h", "a", "r">>, <<"c", "h", "a", "r", "8", "_", "t">>,
        <<"c", "h", "a", "r", "1", "6", "_", "t">>, <<"c", "h", "a", "r", "3", "2", "_", "t">>,
        <<"d", "o", "u", "b", "l", "e">>, <<"f", "l", "o", "a", "t">>, <<"i", "n", "t">>,
        <<"l", "o", "n", "g">>, <<"s", "h", "o", "r", "t">>, <<"s", "i", "g", "n", "e", "d">>,
        <<"u", "n", "s", "i", "g", "n", "e", "d">>, <<"v", "o", "i", "d">>,
        <<"w", "c", "h", "a", "r", "_", "t">>, <<"s", "i", "z", "e", "_", "t">>,
        <<"s", "t", "r", "i", "n", "g">>, <<"v", "e", "c", "t", "o", "r">>, <<"m", "a", "p">>,
        <<"s", "e", "t">>, <<"a", "r", "r", "a", "y">>,
        <<"u", "n", "i", "q", "u", "e", "_", "p", "t", "r">>,
        <<"s", "h", "a", "r", "e", "d", "_", "p", "t", "r">>,
        <<"w", "e", "a", "k", "_", "p", "t", "r">>},
     constants |->
       {<<"N", "U", "L", "L">>, <<"n", "u", "l", "l", "p", "t", "r">>, <<"t", "r", "u", "e">>,
        <<"f", "a", "l", "s", "e">>},
     single_line_comment |-> <<"/", "/">>,
     multi_line_comment |-> [start |-> <<"/", "*">>, end |-> <<"*", "/">>],
     string_delimiters |-> {"\""},
     char_delimiter |-> "'"]

GO ==
    [name |-> "Go",
     extensions |-> <<"go">>,
     keywords |->
       {<<"b", "r", "e", "a", "k">>, <<"c", "a", "s", "e">>, <<"c", "h", "a", "n">>,
        <<"c", "o", "n", "s", "t">>, <<"c", "o", "n", "t", "i", "n", "u", "e">>,
        <<"d", "e", "f", "a", "u", "l", "t">>, <<"d", "e", "f", "e", "r">>,
        <<"e", "l", "s", "e">>, <<"f", "a", "l", "l", "t", "h", "r", "o", "u", "g", "h">>,
        <<"f", "o", "r">>, <<"f", "u", "n", "c">>, <<"g", "o">>, <<"g", "o", "t", "o">>,
        <<"i", "f">>, <<"i", "m", "p", "o", "r", "t">>,
        <<"i", "n", "t", "e", "r", "f", "a", "c", "e">>, <<"m", "a", "p">>,
        <<"p", "a", "c", "k", "a", "g", "e">>, <<"r", "a", "n", "g", "e">>,
        <<"r", "e", "t", "u", "r", "n">>, <<"s", "e", "l", "e", "c", "t">>,
        <<"s", "t", "r", "u", "c", "t">>, <<"s", "w", "i", "t", "c", "h">>,
        <<"t", "y", "p", "e">>, <<"v", "a", "r">>},
     types |->
       {<<"b", "o", "o", "l">>, <<"b", "y", "t", "e">>,
        <<"c", "o", "m", "p", "l", "e", "x", "6", "4">>,
        <<"c", "o", "m", "p", "l", "e", "x", "1", "2", "8">>, <<"e", "r", "r", "o", "r">>,
        <<"f", "l", "o", "a", "t", "3", "2">>, <<"f", "l", "o", "a", "t", "6", "4">>,
        <<"i", "n", "t">>, <<"i", "n", "t", "8">>, <<"i", "n", "t", "1", "6">>,
        <<"i", "n", "t", "3", "2">>, <<"i", "n", "t", "6", "4">>, <<"r", "u", "n", "e">>,
        <<"s", "t", "r", "i", "n", "g">>, <<"u", "i", "n", "t">>, <<"u", "i", "n", "t", "8">>,
        <<"u", "i", "n", "t", "1", "6">>, <<"u", "i", "n", "t", "3", "2">>,
        <<"u", "i", "n", "t", "6", "4">>, <<"u", "i", "n", "t", "p", "t", "r">>},
     constants |->
       {<<"t", "r", "u", "e">>, <<"f", "a", "l", "s", "e">>, <<"n", "i", "l">>,
        <<"i", "o", "t", "a">>},
     single_line_comment |-> <<"/", "/">>,
     multi_line_comment |-> [start |-> <<"/", "*">>, end |-> <<"*", "/">>],
     string_delimiters |-> {"\"", Backtick},
     char_delimiter |-> "'"]

JAVA ==
    [name |-> "Java",
     extensions |-> <<"java">>,
     keywords |->
       {<<"a", "b", "s", "t", "r", "a", "c", "t">>, <<"a", "s", "s", "e", "r", "t">>,
        <<"b", "r", "e", "a", "k">>, <<"c", "a", "s", "e">>, <<"c", "a", "t", "c", "h">>,
        <<"c", "l", "a", "s", "s">>, <<"c", "o", "n", "s", "t">>,
        <<"c", "o", "n", "t", "i", "n", "u", "e">>, <<"d", "e", "f", "a", "u", "l", "t">>,
        <<"d", "o">>, <<"e", "l", "s", "e">>, <<"e", "n", "u", "m">>,
        <<"e", "x", "t", "e", "n", "d", "s">>, <<"f", "i", "n", "a", "l">>,
        <<"f", "i", "n", "a", "l", "l", "y">>, <<"f", "o", "r">>, <<"g", "o", "t", "o">>,
        <<"i", "f">>, <<"i", "m", "p", "l", "e", "m", "e", "n", "t", "s">>,
        <<"i", "m", "p", "o", "r", "t">>, <<"i", "n", "s", "t", "a", "n", "c", "e", "o", "f">>,
        <<"i", "n", "t", "e", "r", "f", "a", "c", "e">>, <<"n", "a", "t", "i", "v", "e">>,
        <<"n", "e", "w">>, <<"p", "a", "c", "k", "a", "g", "e">>,
        <<"p", "r", "i", "v", "a", "t", "e">>, <<"p", "r", "o", "t", "e", "c", "t", "e", "d">>,
        <<"p", "u", "b", "l", "i", "c">>, <<"r", "e", "t", "u", "r", "n">>,
        <<"s", "t", "a", "t", "i", "c">>, <<"s", "t", "r", "i", "c", "t", "f", "p">>,
        <<"s", "u", "p", "e", "r">>, <<"s", "w", "i", "t", "c", "h">>,
        <<"s", "y", "n", "c", "h", "r", "o", "n", "i", "z", "e", "d">>, <<"t", "h", "i", "s">>,
        <<"t", "h", "r", "o", "w">>, <<"t", "h", "r", "o", "w", "s">>,
        <<"t", "r", "a", "n", "s", "i", "e", "n", "t">>, <<"t", "r", "y">>,
        <<"v", "o", "l", "a", "t", "i", "l", "e">>, <<"w", "h", "i", "l", "e">>},
     types |->
       {<<"b", "o", "o", "l", "e", "a", "n">>, <<"b", "y", "t", "e">>, <<"c", "h", "a", "r">>,
        <<"d", "o", "u", "b", "l", "e">>, <<"f", "l", "o", "a", "t">>, <<"i", "n", "t">>,
        <<"l", "o", "n", "g">>, <<"s", "h", "o", "r", "t">>, <<"v", "o", "i", "d">>,
        <<"S", "t", "r", "i", "n", "g">>, <<"I", "n", "t", "e", "g", "e", "r">>,
        <<"L", "o", "n", "g">>, <<"D", "o", "u", "b", "l", "e">>, <<"F", "l", "o", "a", "t">>,
        <<"B", "o", "o", "l", "e", "a", "n">>, <<"C", "h", "a", "r", "a", "c", "t", "e", "r">>,
        <<"B", "y", "t", "e">>, <<"S", "h", "o", "r", "t">>, <<"O", "b", "j", "e", "c", "t">>,
        <<"C", "l", "a", "s", "s">>, <<"L", "i", "s", "t">>, <<"M", "a", "p">>,
        <<"S", "e", "t">>, <<"A", "r", "r", "a", "y", "L", "i", "s", "t">>,
        <<"H", "a", "s", "h", "M", "a", "p">>, <<"H", "a", "s", "h", "S", "e", "t">>},
     constants |->
       {<<"t", "r", "u", "e">>, <<"f", "a", "l", "s", "e">>, <<"n", "u", "l", "l">>},
     single_line_comment |-> <<"/", "/">>,
     multi_line_comment |-> [start |-> <<"/", "*">>, end |-> <<"*", "/">>],
     string_delimiters |-> {"\""},
     char_delimiter |-> "'"]

HTML ==
    [name |-> "HTML",
     extensions |-> <<"html", "htm", "xhtml">>,
     keywords |->
       {},
     types |->
       {},
     constants |->
       {},
     single_line_comment |-> NoMarker,
     multi_line_comment |-> [start |-> <<"<", "!", "-", "-">>, end |-> <<"-", "-", ">">>],
     string_delimiters |-> {"\"", "'"},
     char_delimiter |-> NoChar]

CSS ==
    [name |-> "CSS",
     extensions |-> <<"css", "scss", "sass", "less">>,
     keywords |->
       {<<"i", "m", "p", "o", "r", "t">>, <<"m", "e", "d", "i", "a">>,
        <<"c", "h", "a", "r", "s", "e", "t">>, <<"f", "o", "n", "t", "-", "f", "a", "c", "e">>,
        <<"k", "e", "y", "f", "r", "a", "m", "e", "s">>,
        <<"s", "u", "p", "p", "o", "r", "t", "s">>, <<"p", "a", "g", "e">>,
        <<"n", "a", "m", "e", "s", "p", "a", "c", "e">>},
     types |->
       {},
     constants |->
       {<<"i", "n", "h", "e", "r", "i", "t">>, <<"i", "n", "i", "t", "i", "a", "l">>,
        <<"u", "n", "s", "e", "t">>, <<"n", "o", "n", "e">>, <<"a", "u", "t", "o">>,
        <<"t", "r", "a", "n", "s", "p", "a", "r", "e", "n", "t">>,
        <<"c", "u", "r", "r", "e", "n", "t", "C", "o", "l", "o", "r">>},
     single_line_comment |-> <<"/", "/">>,
     multi_line_comment |-> [start |-> <<"/", "*">>, end |-> <<"*", "/">>],
     string_delimiters |-> {"\"", "'"},
     char_delimiter |-> NoChar]

JSON ==
    [name |-> "JSON",
     extensions |-> <<"json", "jsonc">>,
     keywords |->
       {},
     types |->
       {},
     constants |->
       {<<"t", "r", "u", "e">>, <<"f", "a", "l", "s", "e">>, <<"n", "u", "l", "l">>},
     single_line_comment |-> NoMarker,
     multi_line_comment |-> NoMultiLine,
     string_delimiters |-> {"\""},
     char_delimiter |-> NoChar]

YAML ==
    [name |-> "YAML",
     extensions |-> <<"yaml", "yml">>,
     keywords |->
       {},
     types |->
       {},
     constants |->
       {<<"t", "r", "u", "e">>, <<"f", "a", "l", "s", "e">>, <<"n", "u", "l", "l">>,
        <<"y", "e", "s">>, <<"n", "o">>, <<"o", "n">>, <<"o", "f", "f">>},
     single_line_comment |-> <<"#">>,
     multi_line_comment |-> NoMultiLine,
     string_delimiters |-> {"\"", "'"},
     char_delimiter |-> NoChar]

TOML ==
    [name |-> "TOML",
     extensions |-> <<"toml">>,
     keywords |->
       {},
     types |->
       {},
     constants |->
       {<<"t", "r", "u", "e">>, <<"f", "a", "l", "s", "e">>},
     single_line_comment |-> <<"#">>,
     multi_line_comment |-> NoMultiLine,
     string_delimiters |-> {"\"", "'"},
     char_delimiter |-> NoChar]

MARKDOWN ==
    [name |-> "Markdown",
     extensions |-> <<"md", "markdown", "mdown", "mkdn">>,
     keywords |->
       {},
     types |->
       {},
     constants |->
       {},
     single_line_comment |-> NoMarker,
     multi_line_comment |-> NoMultiLine,
     string_delimiters |-> {},
     char_delimiter |-> NoChar]

SHELL ==
    [name |-> "Shell",
     extensions |-> <<"sh", "bash", "zsh", "fish">>,
     keywords |->
       {<<"i", "f">>, <<"t", "h", "e", "n">>, <<"e", "l", "s", "e">>, <<"e", "l", "i", "f">>,
        <<"f", "i">>, <<"c", "a", "s", "e">>, <<"e", "s", "a", "c">>, <<"f", "o", "r">>,
        <<"w", "h", "i", "l", "e">>, <<"u", "n", "t", "i", "l">>, <<"d", "o">>,
        <<"d", "o", "n", "e">>, <<"i", "n">>, <<"f", "u", "n", "c", "t", "i", "o", "n">>,
        <<"s", "e", "l", "e", "c", "t">>, <<"t", "i", "m", "e">>,
        <<"c", "o", "p", "r", "o", "c">>, <<"r", "e", "t", "u", "r", "n">>,
        <<"e", "x", "i", "t">>, <<"b", "r", "e", "a", "k">>,
        <<"c", "o", "n", "t", "i", "n", "u", "e">>, <<"l", "o", "c", "a", "l">>,
        <<"e", "x", "p", "o", "r", "t">>, <<"r", "e", "a", "d", "o", "n", "l", "y">>,
        <<"d", "e", "c", "l", "a", "r", "e">>, <<"t", "y", "p", "e", "s", "e", "t">>,
        <<"u", "n", "s", "e", "t">>, <<"s", "h", "i", "f", "t">>,
        <<"s", "o", "u", "r", "c", "e">>, <<"a", "l", "i", "a", "s">>, <<"e", "v", "a", "l">>,
        <<"e", "x", "e", "c">>, <<"t", "r", "a", "p">>},
     types |->
       {},
     constants |->
       {<<"t", "r", "u", "e">>, <<"f", "a", "l", "s", "e">>},
     single_line_comment |-> <<"#">>,
     multi_line_comment |-> NoMultiLine,
     string_delimiters |-> {"\"", "'"},
     char_delimiter |-> NoChar]

SQL ==
    [name |-> "SQL",
     extensions |-> <<"sql">>,
     keywords |->
       {<<"S", "E", "L", "E", "C", "T">>, <<"F", "R", "O", "M">>, <<"W", "H", "E", "R", "E">>,
        <<"I", "N", "S", "E", "R", "T">>, <<"U", "P", "D", "A", "T", "E">>,
        <<"D", "E", "L", "E", "T", "E">>, <<"C", "R", "E", "A", "T", "E">>,
        <<"D", "R", "O", "P">>, <<"A", "L", "T", "E", "R">>, <<"T", "A", "B", "L", "E">>,
        <<"I", "N", "D", "E", "X">>, <<"V", "I", "E", "W">>,
        <<"D", "A", "T", "A", "B", "A", "S", "E">>, <<"S", "C", "H", "E", "M", "A">>,
        <<"I", "N", "T", "O">>, <<"V", "A", "L", "U", "E", "S">>, <<"S", "E", "T">>,
        <<"A", "N", "D">>, <<"O", "R">>, <<"N", "O", "T">>, <<"N", "U", "L", "L">>,
        <<"I", "S">>, <<"I", "N">>, <<"L", "I", "K", "E">>,
        <<"B", "E", "T", "W", "E", "E", "N">>, <<"J", "O", "I", "N">>,
        <<"I", "N", "N", "E", "R">>, <<"L", "E", "F", "T">>, <<"R", "I", "G", "H", "T">>,
        <<"O", "U", "T", "E", "R">>, <<"O", "N">>, <<"A", "S">>, <<"O", "R", "D", "E", "R">>,
        <<"B", "Y">>, <<"G", "R", "O", "U", "P">>, <<"H", "A", "V", "I", "N", "G">>,
        <<"L", "I", "M", "I", "T">>, <<"O", "F", "F", "S", "E", "T">>,
        <<"U", "N", "I", "O", "N">>, <<"A", "L", "L">>,
        <<"D", "I", "S", "T", "I", "N", "C", "T">>, <<"P", "R", "I", "M", "A", "R", "Y">>,
        <<"K", "E", "Y">>, <<"F", "O", "R", "E", "I", "G", "N">>,
        <<"R", "E", "F", "E", "R", "E", "N", "C", "E", "S">>,
        <<"C", "O", "N", "S", "T", "R", "A", "I", "N", "T">>,
        <<"D", "E", "F", "A", "U", "L", "T">>, <<"C", "H", "E", "C", "K">>,
        <<"U", "N", "I", "Q", "U", "E">>, <<"C", "A", "S", "C", "A", "D", "E">>,
        <<"R", "E", "S", "T", "R", "I", "C", "T">>, <<"T", "R", "I", "G", "G", "E", "R">>,
        <<"P", "R", "O", "C", "E", "D", "U", "R", "E">>,
        <<"F", "U", "N", "C", "T", "I", "O", "N">>, <<"B", "E", "G", "I", "N">>,
        <<"E", "N", "D">>, <<"C", "O", "M", "M", "I", "T">>,
        <<"R", "O", "L", "L", "B", "A", "C", "K">>,
        <<"T", "R", "A", "N", "S", "A", "C", "T", "I", "O", "N">>, <<"G", "R", "A", "N", "T">>,
        <<"R", "E", "V", "O", "K", "E">>, <<"I", "F">>, <<"E", "L", "S", "E">>,
        <<"C", "A", "S", "E">>, <<"W", "H", "E", "N">>, <<"T", "H", "E", "N">>,
        <<"E", "X", "I", "S", "T", "S">>, <<"A", "N", "Y">>, <<"S", "O", "M", "E">>,
        <<"s", "e", "l", "e", "c", "t">>, <<"f", "r", "o", "m">>, <<"w", "h", "e", "r", "e">>,
        <<"i", "n", "s", "e", "r", "t">>, <<"u", "p", "d", "a", "t", "e">>,
        <<"d", "e", "l", "e", "t", "e">>, <<"c", "r", "e", "a", "t", "e">>,
        <<"d", "r", "o", "p">>, <<"a", "l", "t", "e", "r">>, <<"t", "a", "b", "l", "e">>,
        <<"i", "n", "d", "e", "x">>, <<"v", "i", "e", "w">>,
        <<"d", "a", "t", "a", "b", "a", "s", "e">>, <<"s", "c", "h", "e", "m", "a">>,
        <<"i", "n", "t", "o">>, <<"v", "a", "l", "u", "e", "s">>, <<"s", "e", "t">>,
        <<"a", "n", "d">>, <<"o", "r">>, <<"n", "o", "t">>, <<"n", "u", "l", "l">>,
        <<"i", "s">>, <<"i", "n">>, <<"l", "i", "k", "e">>,
        <<"b", "e", "t", "w", "e", "e", "n">>, <<"j", "o", "i", "n">>,
        <<"i", "n", "n", "e", "r">>, <<"l", "e", "f", "t">>, <<"r", "i", "g", "h", "t">>,
        <<"o", "u", "t", "e", "r">>, <<"o", "n">>, <<"a", "s">>, <<"o", "r", "d", "e", "r">>,
        <<"b", "y">>, <<"g", "r", "o", "u", "p">>, <<"h", "a", "v", "i", "n", "g">>,
        <<"l", "i", "m", "i", "t">>, <<"o", "f", "f", "s", "e", "t">>,
        <<"u", "n", "i", "o", "n">>, <<"a", "l", "l">>,
        <<"d", "i", "s", "t", "i", "n", "c", "t">>, <<"p", "r", "i", "m", "a", "r", "y">>,
        <<"k", "e", "y">>, <<"f", "o", "r", "e", "i", "g", "n">>,
        <<"r", "e", "f", "e", "r", "e", "n", "c", "e", "s">>,
        <<"c", "o", "n", "s", "t", "r", "a", "i", "n", "t">>,
        <<"d", "e", "f", "a", "u", "l", "t">>, <<"c", "h", "e", "c", "k">>,
        <<"u", "n", "i", "q", "u", "e">>, <<"c", "a", "s", "c", "a", "d", "e">>,
        <<"r", "e", "s", "t", "r", "i", "c", "t">>, <<"t", "r", "i", "g", "g", "e", "r">>,
        <<"p", "r", "o", "c", "e", "d", "u", "r", "e">>,
        <<"f", "u", "n", "c", "t", "i", "o", "n">>, <<"b", "e", "g", "i", "n">>,
        <<"e", "n", "d">>, <<"c", "o", "m", "m", "i", "t">>,
        <<"r", "o", "l", "l", "b", "a", "c", "k">>,
        <<"t", "r", "a", "n", "s", "a", "c", "t", "i", "o", "n">>, <<"g", "r", "a", "n", "t">>,
        <<"r", "e", "v", "o", "k", "e">>, <<"i", "f">>, <<"e", "l", "s", "e">>,
        <<"c", "a", "s", "e">>, <<"w", "h", "e", "n">>, <<"t", "h", "e", "n">>,
        <<"e", "x", "i", "s", "t", "s">>, <<"a", "n", "y">>, <<"s", "o", "m", "e">>},
     types |->
       {<<"I", "N", "T">>, <<"I", "N", "T", "E", "G", "E", "R">>,
        <<"S", "M", "A", "L", "L", "I", "N", "T">>, <<"B", "I", "G", "I", "N", "T">>,
        <<"D", "E", "C", "I", "M", "A", "L">>, <<"N", "U", "M", "E", "R", "I", "C">>,
        <<"F", "L", "O", "A", "T">>, <<"R", "E", "A", "L">>, <<"D", "O", "U", "B", "L", "E">>,
        <<"C", "H", "A", "R">>, <<"V", "A", "R", "C", "H", "A", "R">>, <<"T", "E", "X", "T">>,
        <<"B", "L", "O", "B">>, <<"D", "A", "T", "E">>, <<"T", "I", "M", "E">>,
        <<"D", "A", "T", "E", "T", "I", "M", "E">>,
        <<"T", "I", "M", "E", "S", "T", "A", "M", "P">>, <<"B", "O", "O", "L", "E", "A", "N">>,
        <<"B", "O", "O", "L">>, <<"i", "n", "t">>, <<"i", "n", "t", "e", "g", "e", "r">>,
        <<"s", "m", "a", "l", "l", "i", "n", "t">>, <<"b", "i", "g", "i", "n", "t">>,
        <<"d", "e", "c", "i", "m", "a", "l">>, <<"n", "u", "m", "e", "r", "i", "c">>,
        <<"f", "l", "o", "a", "t">>, <<"r", "e", "a", "l">>, <<"d", "o", "u", "b", "l", "e">>,
        <<"c", "h", "a", "r">>, <<"v", "a", "r", "c", "h", "a", "r">>, <<"t", "e", "x", "t">>,
        <<"b", "l", "o", "b">>, <<"d", "a", "t", "e">>, <<"t", "i", "m", "e">>,
        <<"d", "a", "t", "e", "t", "i", "m", "e">>,
        <<"t", "i", "m", "e", "s", "t", "a", "m", "p">>, <<"b", "o", "o", "l", "e", "a", "n">>,
        <<"b", "o", "o", "l">>},
     constants |->
       {<<"T", "R", "U", "E">>, <<"F", "A", "L", "S", "E">>, <<"N", "U", "L", "L">>,
        <<"t", "r", "u", "e">>, <<"f", "a", "l", "s", "e">>, <<"n", "u", "l", "l">>},
     single_line_comment |-> <<"-", "-">>,
     multi_line_comment |-> [start |-> <<"/", "*">>, end |-> <<"*", "/">>],
     string_delimiters |-> {"'"},
     char_delimiter |-> NoChar]

LANGUAGES ==
    <<RUST, PYTHON, JAVASCRIPT, TYPESCRIPT, C, CPP, GO, JAVA, HTML, CSS, JSON, YAML,
      TOML, MARKDOWN, SHELL, SQL>>

\* Highlighter.language is an Option<&'static Language>: 0 is None, k > 0 is
\* the k-th entry of LANGUAGES.
NoLanguage == 0

LanguageIds == 0 .. Len(LANGUAGES)

(***************************************************************************)
(* Character classes of the Rust standard library, on ASCII.               *)
(***************************************************************************)
AsciiDigits == {"0", "1", "2", "3", "4", "5", "6", "7", "8", "9"}

AsciiLower ==
    {"a", "b", "c", "d", "e", "f", "g", "h", "i", "j", "k", "l", "m", "n", "o", "p",
     "q", "r", "s", "t", "u", "v", "w", "x", "y", "z"}

AsciiUpper ==
    {"A", "B", "C", "D", "E", "F", "G", "H", "I", "J", "K", "L", "M", "N", "O", "P",
     "Q", "R", "S", "T", "U", "V", "W", "X", "Y", "Z"}

is_ascii_digit(c) == c \in AsciiDigits

is_ascii_alphabetic(c) == c \in AsciiLower \cup AsciiUpper

is_alphabetic(c) == c \in AsciiLower \cup AsciiUpper

is_alphanumeric(c) == is_alphabetic(c) \/ c \in AsciiDigits

is_ascii_hexdigit(c) ==
    c \in AsciiDigits \cup {"a", "b", "c", "d", "e", "f", "A", "B", "C", "D", "E", "F"}

\* "+-*/%=<>!&|^~?:" (syntax.rs 656, 660)
OperatorChars ==
    {"+", "-", "*", "/", "%", "=", "<", ">", "!", "&", "|", "^", "~", "?", ":"}

\* "()[]{}.,;@" (syntax.rs 672)
PunctuationChars == {"(", ")", "[", "]", "{", "}", ".", ",", ";", "@"}

\* "+-*/%=<>!&|^~?:()[]{}.,;@#" (syntax.rs 688)
OtherStopChars == OperatorChars \cup PunctuationChars \cup {"#"}

(***************************************************************************)
(* Indexing helpers: chars[i] and chars[a..b] of the source.               *)
(***************************************************************************)
At(chars, i) == chars[i + 1]

Slice(chars, a, b) == SubSeq(chars, a + 1, b)

Token(text, token_type) == [text |-> text, token_type |-> token_type]

DefaultHighlightState == [in_multiline_comment |-> FALSE, in_string |-> NoChar]

\* One pass of the scanning loop yields: the new index, the tokens pushed,
\* the new state, and whether the pass executed `return tokens`.
Pass(i, toks, st, returned) ==
    [i |-> i, tokens |-> toks, state |-> st, returned |-> returned]

matches_at(chars, pos, pattern) ==
    IF pos + Len(pattern) > Len(chars)
    THEN FALSE
    ELSE Slice(chars, pos, pos + Len(pattern)) = pattern

(***************************************************************************)
(* Multi-line comment continuation, syntax.rs 411-432.                     *)
(***************************************************************************)
\* Mutant: the pass that consumes the line also leaves the comment.
CommentContinuation_Clears(lang, chars, i, st) ==
    Pass(i, <<Token(Slice(chars, i, Len(chars)), "Comment")>>,
         [st EXCEPT !.in_multiline_comment = FALSE], TRUE)

CommentContinuation(lang, chars, i, st) ==
    LET end_chars == lang.multi_line_comment.end
    IN  IF lang.multi_line_comment # NoMultiLine /\ matches_at(chars, i, end_chars)
        THEN Pass(i + Len(end_chars),
                  <<Token(Slice(chars, 0, i + Len(end_chars)), "Comment")>>,
                  [st EXCEPT !.in_multiline_comment = FALSE], FALSE)
        ELSE Pass(i, <<Token(Slice(chars, i, Len(chars)), "Comment")>>, st, TRUE)

(***************************************************************************)
(* The string scan shared in shape by syntax.rs 437-447 and 505-514: a     *)
(* backslash with a character after it skips two, the delimiter ends the   *)
(* scan after consuming it, anything else skips one.  `closed` records     *)
(* that the scan left through the delimiter branch.                        *)
(***************************************************************************)
\* Mutant: a backslash does not escape the character after it.
RECURSIVE scan_string_NoEscape(_, _, _)
scan_string_NoEscape(chars, i, delim) ==
    IF i >= Len(chars) THEN [i |-> i, closed |-> FALSE]
    ELSE IF At(chars, i) = delim THEN [i |-> i + 1, closed |-> TRUE]
    ELSE scan_string_NoEscape(chars, i + 1, delim)

RECURSIVE scan_string(_, _, _)
scan_string(chars, i, delim) ==
    IF i >= Len(chars) THEN [i |-> i, closed |-> FALSE]
    ELSE IF At(chars, i) = "\\" /\ i + 1 < Len(chars)
         THEN scan_string(chars, i + 2, delim)
    ELSE IF At(chars, i) = delim THEN [i |-> i + 1, closed |-> TRUE]
    ELSE scan_string(chars, i + 1, delim)

(***************************************************************************)
(* String continuation, syntax.rs 435-454.                                 *)
(***************************************************************************)
StringContinuation(lang, chars, i, st) ==
    LET r == scan_string(chars, i, st.in_string)
    IN  Pass(r.i, <<Token(Slice(chars, i, r.i), "String")>>,
             IF r.closed THEN [st EXCEPT !.in_string = NoChar] ELSE st, FALSE)

(***************************************************************************)
(* Single-line comment, syntax.rs 457-467.                                 *)
(***************************************************************************)
SingleLineCommentAt(lang, chars, i) ==
    /\ lang.single_line_comment # NoMarker
    /\ matches_at(chars, i, lang.single_line_comment)

\* Mutant: the comment token starts after the marker.
SingleLineComment_DropsMarker(lang, chars, i, st) ==
    Pass(i, <<Token(Slice(chars, i + Len(lang.single_line_comment), Len(chars)),
                    "Comment")>>, st, TRUE)

SingleLineComment(lang, chars, i, st) ==
    Pass(i, <<Token(Slice(chars, i, Len(chars)), "Comment")>>, st, TRUE)

(***************************************************************************)
(* Multi-line comment start, syntax.rs 470-497.                            *)
(***************************************************************************)
RECURSIVE find_comment_end(_, _, _)
find_comment_end(chars, i, end_chars) ==
    IF i >= Len(chars) THEN [i |-> i, found |-> FALSE]
    ELSE IF matches_at(chars, i, end_chars)
         THEN [i |-> i + Len(end_chars), found |-> TRUE]
    ELSE find_comment_end(chars, i + 1, end_chars)

MultiLineCommentStartAt(lang, chars, i) ==
    /\ lang.multi_line_comment # NoMultiLine
    /\ matches_at(chars, i, lang.multi_line_comment.start)

\* Mutant: the search for the end marker starts inside the start marker.
MultiLineCommentStart_FromStart(lang, chars, i, st) ==
    LET r == find_comment_end(chars, i + 1, lang.multi_line_comment.end)
    IN  Pass(r.i, <<Token(Slice(chars, i, r.i), "Comment")>>,
             [st EXCEPT !.in_multiline_comment = ~r.found], FALSE)

MultiLineCommentStart(lang, chars, i, st) ==
    LET comment_start == i
        r == find_comment_end(chars, i + Len(lang.multi_line_comment.start),
                              lang.multi_line_comment.end)
    IN  Pass(r.i, <<Token(Slice(chars, comment_start, r.i), "Comment")>>,
             [st EXCEPT !.in_multiline_comment = ~r.found], FALSE)

(***************************************************************************)
(* String start, syntax.rs 500-533.  The completeness test is the source's *)
(* `i <= chars.len() && chars.get(i - 1) == Some(&delim)`.                 *)
(***************************************************************************)
StringComplete(chars, i, delim) ==
    i <= Len(chars) /\ At(chars, i - 1) = delim

StringStart(lang, chars, i, st) ==
    LET delim == At(chars, i)
        start == i
        j     == scan_string(chars, i + 1, delim).i
    IN  IF StringComplete(chars, j, delim)
        THEN Pass(j, <<Token(Slice(chars, start, j), "String")>>, st, FALSE)
        ELSE Pass(j, <<Token(Slice(chars, start, Len(chars)), "String")>>,
                  [st EXCEPT !.in_string = delim], TRUE)

(***************************************************************************)
(* Char literal, syntax.rs 536-562.                                        *)
(***************************************************************************)
CharLiteral(lang, chars, i, st) ==
    LET start == i
        i1 == i + 1
        i2 == IF i1 < Len(chars)
              THEN IF At(chars, i1) = "\\" /\ i1 + 1 < Len(chars) THEN i1 + 2 ELSE i1 + 1
              ELSE i1
        i3 == IF i2 < Len(chars) /\ At(chars, i2) = lang.char_delimiter
              THEN i2 + 1 ELSE i2
    IN  Pass(i3, <<Token(Slice(chars, start, i3), "Char")>>, st, FALSE)

(***************************************************************************)
(* Number, syntax.rs 565-606.                                              *)
(***************************************************************************)
NumberAt(chars, i) ==
    \/ is_ascii_digit(At(chars, i))
    \/ (At(chars, i) = "." /\ i + 1 < Len(chars) /\ is_ascii_digit(At(chars, i + 1)))

RECURSIVE number_body(_, _, _)
number_body(chars, i, has_dot) ==
    IF i >= Len(chars) THEN i
    ELSE LET c == At(chars, i)
         IN  IF is_ascii_digit(c) THEN number_body(chars, i + 1, has_dot)
             ELSE IF c = "." /\ ~has_dot THEN number_body(chars, i + 1, TRUE)
             ELSE IF c \in {"x", "X", "b", "o"} THEN number_body(chars, i + 1, has_dot)
             ELSE IF is_ascii_hexdigit(c) THEN number_body(chars, i + 1, has_dot)
             ELSE IF c = "_" THEN number_body(chars, i + 1, has_dot)
             ELSE IF c \in {"e", "E"}
                  THEN IF i + 1 < Len(chars) /\ At(chars, i + 1) \in {"+", "-"}
                       THEN number_body(chars, i + 2, has_dot)
                       ELSE number_body(chars, i + 1, has_dot)
             ELSE i

RECURSIVE number_suffix(_, _)
number_suffix(chars, i) ==
    IF i < Len(chars) /\ (is_ascii_alphabetic(At(chars, i)) \/ At(chars, i) = "_")
    THEN number_suffix(chars, i + 1)
    ELSE i

Number(lang, chars, i, st) ==
    LET start == i
        j == number_suffix(chars, number_body(chars, i + 1, At(chars, i) = "."))
    IN  Pass(j, <<Token(Slice(chars, start, j), "Number")>>, st, FALSE)

(***************************************************************************)
(* Identifier / keyword, syntax.rs 609-632.                                *)
(***************************************************************************)
RECURSIVE word_end(_, _)
word_end(chars, i) ==
    IF i < Len(chars) /\ (is_alphanumeric(At(chars, i)) \/ At(chars, i) = "_")
    THEN word_end(chars, i + 1)
    ELSE i

\* Mutant: the constant set is asked before the keyword set.
IdentifierType_ConstantFirst(lang, chars, text, i) ==
    IF text \in lang.constants THEN "Constant"
    ELSE IF text \in lang.keywords THEN "Keyword"
    ELSE IF text \in lang.types THEN "Type"
    ELSE IF i < Len(chars) /\ At(chars, i) = "(" THEN "Function"
    ELSE IF i < Len(chars) /\ At(chars, i) = "!" THEN "Macro"
    ELSE "Normal"

IdentifierType(lang, chars, text, i) ==
    IF text \in lang.keywords THEN "Keyword"
    ELSE IF text \in lang.types THEN "Type"
    ELSE IF text \in lang.constants THEN "Constant"
    ELSE IF i < Len(chars) /\ At(chars, i) = "(" THEN "Function"
    ELSE IF i < Len(chars) /\ At(chars, i) = "!" THEN "Macro"
    ELSE "Normal"

Identifier(lang, chars, i, st) ==
    LET start == i
        j == word_end(chars, i)
        text == Slice(chars, start, j)
    IN  Pass(j, <<Token(text, IdentifierType(lang, chars, text, j))>>, st, FALSE)

(***************************************************************************)
(* Rust attribute, syntax.rs 635-653.                                      *)
(***************************************************************************)
RECURSIVE attribute_end(_, _)
attribute_end(chars, i) ==
    IF i < Len(chars) /\ At(chars, i) # "]" THEN attribute_end(chars, i + 1) ELSE i

Attribute(lang, chars, i, st) ==
    LET start == i
        i1 == i + 1
        i2 == IF i1 < Len(chars) /\ At(chars, i1) = "["
              THEN LET k == attribute_end(chars, i1)
                   IN  IF k < Len(chars) THEN k + 1 ELSE k
              ELSE i1
    IN  Pass(i2, <<Token(Slice(chars, start, i2), "Attribute")>>, st, FALSE)

(***************************************************************************)
(* Operators, syntax.rs 656-669; punctuation, 672-679.                     *)
(***************************************************************************)
RECURSIVE operator_end(_, _)
operator_end(chars, i) ==
    IF i < Len(chars) /\ At(chars, i) \in OperatorChars
    THEN operator_end(chars, i + 1)
    ELSE i

Operator(lang, chars, i, st) ==
    LET start == i
        j == operator_end(chars, i + 1)
    IN  Pass(j, <<Token(Slice(chars, start, j), "Operator")>>, st, FALSE)

Punctuation(lang, chars, i, st) ==
    Pass(i + 1, <<Token(<<At(chars, i)>>, "Punctuation")>>, st, FALSE)

(***************************************************************************)
(* Whitespace and other, syntax.rs 682-705.                                *)
(***************************************************************************)
RECURSIVE other_end(_, _, _)
other_end(lang, chars, i) ==
    IF /\ i < Len(chars)
       /\ ~is_alphanumeric(At(chars, i))
       /\ At(chars, i) # "_"
       /\ At(chars, i) \notin lang.string_delimiters
       /\ lang.char_delimiter # At(chars, i)
       /\ At(chars, i) \notin OtherStopChars
    THEN other_end(lang, chars, i + 1)
    ELSE i

\* Mutant: the single unhandled character is emitted without advancing.
Other_NoProgress(lang, chars, i, st) ==
    LET start == i
        j == other_end(lang, chars, i)
    IN  IF j > start
        THEN Pass(j, <<Token(Slice(chars, start, j), "Normal")>>, st, FALSE)
        ELSE Pass(j, <<Token(<<At(chars, j)>>, "Normal")>>, st, FALSE)

Other(lang, chars, i, st) ==
    LET start == i
        j == other_end(lang, chars, i)
    IN  IF j > start
        THEN Pass(j, <<Token(Slice(chars, start, j), "Normal")>>, st, FALSE)
        ELSE Pass(j + 1, <<Token(<<At(chars, j)>>, "Normal")>>, st, FALSE)

(***************************************************************************)
(* The body of `while i < chars.len()`, syntax.rs 409-706: the branches in *)
(* the order the source tries them.                                        *)
(***************************************************************************)
\* Mutant: every quote character starts a string, whatever the language.
LoopBody_AnyQuote(lang, chars, i, st) ==
    IF st.in_multiline_comment THEN CommentContinuation(lang, chars, i, st)
    ELSE IF st.in_string # NoChar THEN StringContinuation(lang, chars, i, st)
    ELSE IF SingleLineCommentAt(lang, chars, i) THEN SingleLineComment(lang, chars, i, st)
    ELSE IF MultiLineCommentStartAt(lang, chars, i)
         THEN MultiLineCommentStart(lang, chars, i, st)
    ELSE IF At(chars, i) \in {"\"", "'", Backtick} THEN StringStart(lang, chars, i, st)
    ELSE Other(lang, chars, i, st)

LoopBody(lang, chars, i, st) ==
    IF st.in_multiline_comment THEN CommentContinuation(lang, chars, i, st)
    ELSE IF st.in_string # NoChar THEN StringContinuation(lang, chars, i, st)
    ELSE IF SingleLineCommentAt(lang, chars, i) THEN SingleLineComment(lang, chars, i, st)
    ELSE IF MultiLineCommentStartAt(lang, chars, i)
         THEN MultiLineCommentStart(lang, chars, i, st)
    ELSE IF At(chars, i) \in lang.string_delimiters THEN StringStart(lang, chars, i, st)
    ELSE IF lang.char_delimiter # NoChar /\ At(chars, i) = lang.char_delimiter
         THEN CharLiteral(lang, chars, i, st)
    ELSE IF NumberAt(chars, i) THEN Number(lang, chars, i, st)
    ELSE IF is_alphabetic(At(chars, i)) \/ At(chars, i) = "_"
         THEN Identifier(lang, chars, i, st)
    ELSE IF At(chars, i) = "#" /\ lang.name = "Rust" THEN Attribute(lang, chars, i, st)
    ELSE IF At(chars, i) \in OperatorChars THEN Operator(lang, chars, i, st)
    ELSE IF At(chars, i) \in PunctuationChars THEN Punctuation(lang, chars, i, st)
    ELSE Other(lang, chars, i, st)

(***************************************************************************)
(* The while loop as a whole, from index i in state st to the return       *)
(* (syntax.rs 409-708): the tokens pushed from there on and the state left *)
(* to the caller.                                                          *)
(***************************************************************************)
RECURSIVE scan_from(_, _, _, _)
scan_from(lang, chars, i, st) ==
    IF i >= Len(chars) THEN [tokens |-> << >>, state |-> st]
    ELSE LET p == LoopBody(lang, chars, i, st)
         IN  IF p.returned THEN [tokens |-> p.tokens, state |-> p.state]
             ELSE LET rest == scan_from(lang, chars, p.i, p.state)
                  IN  [tokens |-> p.tokens \o rest.tokens, state |-> rest.state]

\* Highlighter::highlight_line, syntax.rs 397-709, for a Highlighter of
\* language `id`: the tokens returned and the caller's state afterwards.
highlight_line(id, chars, st) ==
    IF id = NoLanguage
    THEN [tokens |-> <<Token(chars, "Normal")>>, state |-> st]
    ELSE scan_from(LANGUAGES[id], chars, 0, st)

(***************************************************************************)
(* Line, buffer.rs 7-60.  A Line is its `chars`.                           *)
(***************************************************************************)
LineNew == << >>

\* Vec::insert(idx, c) and Vec::remove(idx) on a 0-based index.
VecInsert(v, idx, x) == SubSeq(v, 1, idx) \o <<x>> \o SubSeq(v, idx + 1, Len(v))

VecRemove(v, idx) == SubSeq(v, 1, idx) \o SubSeq(v, idx + 2, Len(v))

\* Mutant: an index past the end is taken as the end.
line_insert_Clamps(line, idx, c) ==
    VecInsert(line, IF idx <= Len(line) THEN idx ELSE Len(line), c)

\* Line::insert, buffer.rs 34-38
line_insert(line, idx, c) ==
    IF idx <= Len(line) THEN VecInsert(line, idx, c) ELSE line

\* Line::delete, buffer.rs 40-46: the line afterwards and the Option returned
line_delete(line, idx) ==
    IF idx < Len(line)
    THEN [line |-> VecRemove(line, idx), result |-> At(line, idx)]
    ELSE [line |-> line, result |-> NoChar]

\* Mutant: the returned line starts one character late.
line_split_off_OffByOne(line, idx) ==
    IF idx >= Len(line)
    THEN [line |-> line, rest |-> LineNew]
    ELSE [line |-> SubSeq(line, 1, idx), rest |-> SubSeq(line, idx + 2, Len(line))]

\* Line::split_off, buffer.rs 48-55: the receiver afterwards and the Line returned
line_split_off(line, idx) ==
    IF idx >= Len(line)
    THEN [line |-> line, rest |-> LineNew]
    ELSE [line |-> SubSeq(line, 1, idx), rest |-> SubSeq(line, idx + 1, Len(line))]

\* Line::append, buffer.rs 57-59
line_append(line, other) == line \o other

(***************************************************************************)
(* Buffer, buffer.rs 63-186.                                               *)
(***************************************************************************)
NoPath == "None"

NoExtension == "None"

\* Mutant: only the first extension of a language is compared.
contains_FirstOnly(exts, ext) == exts # << >> /\ exts[1] = ext

\* <[&str]>::contains, syntax.rs 374: string equality with some element
contains(exts, ext) == \E e \in 1 .. Len(exts) : exts[e] = ext

\* detect_language, syntax.rs 372-375: the first language of LANGUAGES that
\* lists the extension
detect_language(ext) ==
    LET listing == {k \in 1 .. Len(LANGUAGES) : contains(LANGUAGES[k].extensions, ext)}
    IN  IF ext = NoExtension \/ listing = {} THEN NoLanguage
        ELSE CHOOSE k \in listing : \A j \in listing : k <= j

\* Highlighter::new, syntax.rs 390-394: the language it holds
HighlighterNew(ext) == detect_language(ext)

\* The files whose permissions are read-only (buffer.rs 94-96).
ReadOnlyPaths == {"b.txt"}

\* Buffer::new, buffer.rs 71-78
BufferNew ==
    [lines |-> <<LineNew>>, path |-> NoPath, modified |-> FALSE, readonly |-> FALSE]

\* BufRead::lines over the bytes of a file: a line ends at "\n"; a "\r" just
\* before that "\n" is dropped; a last line without terminator still counts.
RECURSIVE read_lines(_, _)
read_lines(content, cur) ==
    IF content = << >>
    THEN IF cur = << >> THEN << >> ELSE <<cur>>
    ELSE IF Head(content) = "\n"
         THEN LET l == IF cur # << >> /\ cur[Len(cur)] = "\r"
                       THEN SubSeq(cur, 1, Len(cur) - 1) ELSE cur
              IN  <<l>> \o read_lines(Tail(content), << >>)
    ELSE read_lines(Tail(content), Append(cur, Head(content)))

\* Buffer::from_file on a file that opens and reads, buffer.rs 80-104:
\* `read` is what reader.lines() yielded, `ro` the file's read-only permission.
from_file(p, read, ro) ==
    [lines |-> IF read = << >> THEN <<LineNew>> ELSE read,
     path |-> p, modified |-> FALSE, readonly |-> ro]

\* Buffer::extension, buffer.rs 197-202: the extension of the path in lower
\* case; the paths that have one here are a.rs and b.txt.
buffer_extension(b) ==
    CASE b.path = "a.rs" -> "rs"
      [] b.path = "b.txt" -> "txt"
      [] OTHER -> NoExtension

\* Mutant: modified is cleared before the path is looked at.
save_ClearsWithoutPath(b, io_ok) ==
    IF b.path # NoPath
    THEN IF io_ok
         THEN [buffer |-> [b EXCEPT !.modified = FALSE], ok |-> TRUE]
         ELSE [buffer |-> b, ok |-> FALSE]
    ELSE [buffer |-> [b EXCEPT !.modified = FALSE], ok |-> FALSE]

\* Buffer::save, buffer.rs 106-122.  io_ok: File::create and every write
\* succeed.  Yields the buffer afterwards and whether the result is Ok.
save(b, io_ok) ==
    IF b.path # NoPath
    THEN IF io_ok
         THEN [buffer |-> [b EXCEPT !.modified = FALSE], ok |-> TRUE]
         ELSE [buffer |-> b, ok |-> FALSE]
    ELSE [buffer |-> b, ok |-> FALSE]

\* Mutant: the final line terminator is not written.
RECURSIVE save_writes_NoFinalNewline(_, _)
save_writes_NoFinalNewline(lines, n) ==
    IF n = Len(lines)
    THEN << >>
    ELSE (IF n > 0 THEN <<"\n">> ELSE << >>) \o lines[n + 1]
             \o save_writes_NoFinalNewline(lines, n + 1)

\* The bytes Buffer::save writes, buffer.rs 109-116: from line n on, a
\* terminator before every line but the first, each line's text, and one
\* terminator after the last.
RECURSIVE save_writes(_, _)
save_writes(lines, n) ==
    IF n = Len(lines)
    THEN <<"\n">>
    ELSE (IF n > 0 THEN <<"\n">> ELSE << >>) \o lines[n + 1]
             \o save_writes(lines, n + 1)

\* Buffer::save_as, buffer.rs 124-127
save_as(b, p, io_ok) == save([b EXCEPT !.path = p], io_ok)

\* Buffer::line_count, buffer.rs 129-131
line_count(b) == Len(b.lines)

\* Buffer::insert_char, buffer.rs 142-147
insert_char(b, row, col, c) ==
    IF row < Len(b.lines)
    THEN [b EXCEPT !.lines[row + 1] = line_insert(@, col, c), !.modified = TRUE]
    ELSE b

\* Mutant: modified is set for every valid row, as insert_char does.
delete_char_AlwaysModified(b, row, col) ==
    IF row < Len(b.lines)
    THEN LET d == line_delete(b.lines[row + 1], col)
         IN  [buffer |-> [b EXCEPT !.lines[row + 1] = d.line, !.modified = TRUE],
              result |-> d.result]
    ELSE [buffer |-> b, result |-> NoChar]

\* Buffer::delete_char, buffer.rs 150-160: the buffer afterwards and the Option returned
delete_char(b, row, col) ==
    IF row < Len(b.lines)
    THEN LET d == line_delete(b.lines[row + 1], col)
         IN  [buffer |-> [b EXCEPT !.lines[row + 1] = d.line,
                                   !.modified = IF d.result # NoChar THEN TRUE ELSE @],
              result |-> d.result]
    ELSE [buffer |-> b, result |-> NoChar]

\* Mutant: the new line is inserted at row, before the shortened line.
insert_newline_Before(b, row, col) ==
    IF row < Len(b.lines)
    THEN LET s == line_split_off(b.lines[row + 1], col)
         IN  [b EXCEPT !.lines = VecInsert([@ EXCEPT ![row + 1] = s.line], row, s.rest),
                       !.modified = TRUE]
    ELSE b

\* Buffer::insert_newline, buffer.rs 163-169
insert_newline(b, row, col) ==
    IF row < Len(b.lines)
    THEN LET s == line_split_off(b.lines[row + 1], col)
         IN  [b EXCEPT !.lines = VecInsert([@ EXCEPT ![row + 1] = s.line], row + 1, s.rest),
                       !.modified = TRUE]
    ELSE b

\* Mutant: row 0 is accepted and removes the first line.
delete_line_RemovesFirst(b, row) ==
    IF row < Len(b.lines) /\ Len(b.lines) > 1
    THEN IF row > 0
         THEN LET line == At(b.lines, row)
                  removed == VecRemove(b.lines, row)
              IN  [b EXCEPT !.lines = [removed EXCEPT ![row] = line_append(@, line)],
                            !.modified = TRUE]
         ELSE [b EXCEPT !.lines = Tail(@), !.modified = TRUE]
    ELSE b

\* Buffer::delete_line, buffer.rs 172-178
delete_line(b, row) ==
    IF row > 0 /\ row < Len(b.lines)
    THEN LET line == At(b.lines, row)
             removed == VecRemove(b.lines, row)
         IN  [b EXCEPT !.lines = [removed EXCEPT ![row] = line_append(@, line)],
                       !.modified = TRUE]
    ELSE b

\* Buffer::insert_empty_line, buffer.rs 181-186
insert_empty_line(b, row) ==
    IF row <= Len(b.lines)
    THEN [b EXCEPT !.lines = VecInsert(@, row, LineNew), !.modified = TRUE]
    ELSE b

(***************************************************************************)
(* The editor's direct line removals.  clamp_cursor (editor.rs 639-656)    *)
(* ends every Normal- and Insert-mode handler, so the cursor row they are  *)
(* entered with is a row of the buffer.                                    *)
(***************************************************************************)
\* Mutant: the line is removed without asking whether it is the last one.
normal_key_d_Unguarded(b, cursor_row) ==
    [b EXCEPT !.lines = VecRemove(@, cursor_row), !.modified = TRUE]

\* handle_normal_key, Key::Char('d'), editor.rs 185-194
normal_key_d(b, cursor_row) ==
    IF line_count(b) > 1
    THEN [b EXCEPT !.lines = VecRemove(@, cursor_row), !.modified = TRUE]
    ELSE b

\* Mutant: merging with the next line leaves the modified flag alone.
insert_key_delete_KeepsFlag(b, cursor_row, cursor_col) ==
    IF cursor_row < Len(b.lines)
    THEN IF cursor_col < Len(b.lines[cursor_row + 1])
         THEN delete_char(b, cursor_row, cursor_col).buffer
         ELSE IF cursor_row + 1 < line_count(b)
              THEN LET next_line == At(b.lines, cursor_row + 1)
                       removed == VecRemove(b.lines, cursor_row + 1)
                   IN  [b EXCEPT !.lines = [removed EXCEPT ![cursor_row + 1] =
                                                line_append(@, next_line)]]
              ELSE b
    ELSE b

\* handle_insert_key, Key::Delete, editor.rs 258-271
insert_key_delete(b, cursor_row, cursor_col) ==
    IF cursor_row < Len(b.lines)
    THEN IF cursor_col < Len(b.lines[cursor_row + 1])
         THEN delete_char(b, cursor_row, cursor_col).buffer
         ELSE IF cursor_row + 1 < line_count(b)
              THEN LET next_line == At(b.lines, cursor_row + 1)
                       removed == VecRemove(b.lines, cursor_row + 1)
                   IN  [b EXCEPT !.lines = [removed EXCEPT ![cursor_row + 1] =
                                                line_append(@, next_line)],
                                 !.modified = TRUE]
              ELSE b
    ELSE b

(***************************************************************************)
(* Editor, editor.rs.  An Editor is a record of the fields that the key    *)
(* handlers read and write: buffer, cursor_row, cursor_col, mode,          *)
(* command_buffer, search_buffer, search_direction, message, browser (only *)
(* whether it is Some) and quit.  The scroll offsets and the highlighter   *)
(* are read by the drawing code only.  A message is its fixed text and the *)
(* text format! puts after it.                                             *)
(***************************************************************************)
Message(text, arg) == [text |-> text, arg |-> arg]

NoMessage == Message("None", << >>)

\* Key, terminal.rs 71-91
Char(c) == [kind |-> "Char", c |-> c]

Ctrl(c) == [kind |-> "Ctrl", c |-> c]

Key(kind) == [kind |-> kind, c |-> NoChar]

\* Editor::new, editor.rs 38-59
EditorNew ==
    [buffer |-> BufferNew, highlighter |-> HighlighterNew(NoExtension),
     cursor_row |-> 0, cursor_col |-> 0, scroll_row |-> 0, scroll_col |-> 0, mode |-> "Normal",
     command_buffer |-> << >>, search_buffer |-> << >>, search_direction |-> 1,
     message |-> NoMessage, browser |-> FALSE, quit |-> FALSE]

Handled(key, mode) == [key |-> key, mode |-> mode]

NoHandled == Handled(Key("None"), "None")

Before(ed, key_handled) == [editor |-> ed, handled |-> key_handled]

NoBefore == Before(EditorNew, NoHandled)

\* What a handler returns: the Editor it leaves and whether the io::Result is Ok.
Ok(ed) == [editor |-> ed, ok |-> TRUE]

Err(ed) == [editor |-> ed, ok |-> FALSE]

\* usize::saturating_sub
saturating_sub(a, b) == IF a >= b THEN a - b ELSE 0

\* Buffer::line(idx).map(|l| l.len()), the line being there
line_len(ed, row) == Len(ed.buffer.lines[row + 1])

has_line(ed, row) == row < Len(ed.buffer.lines)

\* Editor::move_cursor_left, editor.rs 535-539
move_cursor_left(ed) ==
    IF ed.cursor_col > 0 THEN [ed EXCEPT !.cursor_col = @ - 1] ELSE ed

\* Editor::move_cursor_right, editor.rs 541-552
move_cursor_right(ed) ==
    IF has_line(ed, ed.cursor_row)
    THEN LET max_col == IF ed.mode = "Insert"
                        THEN line_len(ed, ed.cursor_row)
                        ELSE saturating_sub(line_len(ed, ed.cursor_row), 1)
         IN  IF ed.cursor_col < max_col THEN [ed EXCEPT !.cursor_col = @ + 1] ELSE ed
    ELSE ed

\* Editor::move_cursor_up, editor.rs 554-558
move_cursor_up(ed) ==
    IF ed.cursor_row > 0 THEN [ed EXCEPT !.cursor_row = @ - 1] ELSE ed

\* Editor::move_cursor_down, editor.rs 560-564
move_cursor_down(ed) ==
    IF ed.cursor_row + 1 < line_count(ed.buffer)
    THEN [ed EXCEPT !.cursor_row = @ + 1]
    ELSE ed

\* Editor::move_cursor_end_of_line, editor.rs 566-574
move_cursor_end_of_line(ed) ==
    IF has_line(ed, ed.cursor_row)
    THEN [ed EXCEPT !.cursor_col = IF ed.mode = "Insert"
                                   THEN line_len(ed, ed.cursor_row)
                                   ELSE saturating_sub(line_len(ed, ed.cursor_row), 1)]
    ELSE ed

\* The two loops of move_word_forward, editor.rs 582-588: the column each stops at.
RECURSIVE skip_word(_, _)
skip_word(chars, col) ==
    IF col < Len(chars) /\ is_alphanumeric(At(chars, col))
    THEN skip_word(chars, col + 1)
    ELSE col

RECURSIVE skip_space(_, _)
skip_space(chars, col) ==
    IF col < Len(chars) /\ ~is_alphanumeric(At(chars, col))
    THEN skip_space(chars, col + 1)
    ELSE col

\* Editor::move_word_forward, editor.rs 576-597
move_word_forward(ed) ==
    IF has_line(ed, ed.cursor_row)
    THEN LET chars == ed.buffer.lines[ed.cursor_row + 1]
             col == skip_space(chars, skip_word(chars, ed.cursor_col))
         IN  IF col >= Len(chars) /\ ed.cursor_row + 1 < line_count(ed.buffer)
             THEN [ed EXCEPT !.cursor_row = @ + 1, !.cursor_col = 0]
             ELSE [ed EXCEPT !.cursor_col =
                                 IF col <= saturating_sub(Len(chars), 1)
                                 THEN col ELSE saturating_sub(Len(chars), 1)]
    ELSE ed

\* The two loops of move_word_backward, editor.rs 612-618
RECURSIVE back_space(_, _)
back_space(chars, col) ==
    IF col > 0 /\ ~is_alphanumeric(At(chars, col - 1))
    THEN back_space(chars, col - 1)
    ELSE col

RECURSIVE back_word(_, _)
back_word(chars, col) ==
    IF col > 0 /\ is_alphanumeric(At(chars, col - 1))
    THEN back_word(chars, col - 1)
    ELSE col

\* Editor::move_word_backward, editor.rs 599-622
move_word_backward(ed) ==
    IF has_line(ed, ed.cursor_row)
    THEN IF ed.cursor_col = 0 /\ ed.cursor_row > 0
         THEN [ed EXCEPT !.cursor_row = @ - 1,
                         !.cursor_col = saturating_sub(line_len(ed, ed.cursor_row - 1), 1)]
         ELSE LET chars == ed.buffer.lines[ed.cursor_row + 1]
              IN  [ed EXCEPT !.cursor_col = back_word(chars, back_space(chars, ed.cursor_col))]
    ELSE ed

\* Terminal::size().rows, read by Editor::run before every key (editor.rs 82)
SizeRows == 5

\* Editor::page_up, editor.rs 624-631
page_up(ed) ==
    LET page_size == saturating_sub(SizeRows, 4)
    IN  IF ed.cursor_row > page_size
        THEN [ed EXCEPT !.cursor_row = @ - page_size]
        ELSE [ed EXCEPT !.cursor_row = 0]

\* Editor::page_down, editor.rs 633-636
page_down(ed) ==
    LET page_size == saturating_sub(SizeRows, 4)
    IN  [ed EXCEPT !.cursor_row =
                       IF ed.cursor_row + page_size <= line_count(ed.buffer) - 1
                       THEN ed.cursor_row + page_size
                       ELSE line_count(ed.buffer) - 1]

\* Mutant: the column is clamped to the line length in every mode.
clamp_cursor_AsInsert(ed) ==
    LET row == IF ed.cursor_row >= line_count(ed.buffer)
               THEN saturating_sub(line_count(ed.buffer), 1)
               ELSE ed.cursor_row
        e1 == [ed EXCEPT !.cursor_row = row]
    IN  IF has_line(e1, row) /\ e1.cursor_col > line_len(e1, row)
        THEN [e1 EXCEPT !.cursor_col = line_len(e1, row)]
        ELSE e1

\* Editor::clamp_cursor, editor.rs 639-656
clamp_cursor(ed) ==
    LET row == IF ed.cursor_row >= line_count(ed.buffer)
               THEN saturating_sub(line_count(ed.buffer), 1)
               ELSE ed.cursor_row
        e1 == [ed EXCEPT !.cursor_row = row]
    IN  IF has_line(e1, row)
        THEN LET max_col == IF e1.mode = "Insert"
                            THEN line_len(e1, row)
                            ELSE saturating_sub(line_len(e1, row), 1)
             IN  IF e1.cursor_col > max_col THEN [e1 EXCEPT !.cursor_col = max_col] ELSE e1
        ELSE e1

NoPos == -1

\* str::find: the first place from p on where the pattern stands, or NoPos
RECURSIVE find(_, _, _)
find(text, pattern, p) ==
    IF p + Len(pattern) > Len(text) THEN NoPos
    ELSE IF Slice(text, p, p + Len(pattern)) = pattern THEN p
    ELSE find(text, pattern, p + 1)

\* str::rfind: the last place at or before p where the pattern stands, or NoPos
RECURSIVE rfind(_, _, _)
rfind(text, pattern, p) ==
    IF p < 0 THEN NoPos
    ELSE IF Slice(text, p, p + Len(pattern)) = pattern THEN p
    ELSE rfind(text, pattern, p - 1)

\* A character that takes two bytes in UTF-8, and its two bytes.
TwoByteChar == "U+00E9"

TwoBytes == <<"0xC3", "0xA9">>

\* char::encode_utf8: the bytes of one character; an ASCII character is its
\* own single byte.
encode_utf8(c) == IF c = TwoByteChar THEN TwoBytes ELSE <<c>>

\* Line::to_string, buffer.rs 30-32, and the bytes a String holds: the str
\* methods below count in bytes.
RECURSIVE to_string(_)
to_string(line_chars) ==
    IF line_chars = << >> THEN << >>
    ELSE encode_utf8(Head(line_chars)) \o to_string(Tail(line_chars))

\* str::is_char_boundary on line.to_string(): the index is where a character
\* starts, or the length.
is_char_boundary(line_chars, index) ==
    \E k \in 0 .. Len(line_chars) : Len(to_string(SubSeq(line_chars, 1, k))) = index

\* The row reported when a slice of a str panics: its index is inside a
\* character.
Panicked == -2

\* The first loop of perform_search, editor.rs 463-475, from `row` on: the
\* position found, or NoPos as its row, or Panicked.
RECURSIVE search_forward(_, _, _, _)
search_forward(ed, start_row, start_col, row) ==
    IF row >= line_count(ed.buffer) THEN [row |-> NoPos, col |-> 0]
    ELSE LET line_str == to_string(ed.buffer.lines[row + 1])
             search_start == IF row = start_row THEN start_col ELSE 0
             sliced == search_start < Len(line_str)
             pos == IF sliced
                    THEN find(Slice(line_str, search_start, Len(line_str)),
                              to_string(ed.search_buffer), 0)
                    ELSE NoPos
         IN  IF sliced /\ ~is_char_boundary(ed.buffer.lines[row + 1], search_start)
             THEN [row |-> Panicked, col |-> 0]
             ELSE IF pos # NoPos THEN [row |-> row, col |-> search_start + pos]
             ELSE search_forward(ed, start_row, start_col, row + 1)

\* The second loop of perform_search, editor.rs 478-488
RECURSIVE search_wrap_forward(_, _, _)
search_wrap_forward(ed, start_row, row) ==
    IF row > start_row THEN [row |-> NoPos, col |-> 0]
    ELSE LET pos == IF has_line(ed, row)
                    THEN find(to_string(ed.buffer.lines[row + 1]),
                              to_string(ed.search_buffer), 0)
                    ELSE NoPos
         IN  IF pos # NoPos THEN [row |-> row, col |-> pos]
             ELSE search_wrap_forward(ed, start_row, row + 1)

\* Editor::perform_search panics, editor.rs 468
perform_search_panics(ed) ==
    /\ ed.search_buffer # << >>
    /\ search_forward(ed, ed.cursor_row, ed.cursor_col + 1, ed.cursor_row).row = Panicked

\* Editor::perform_search, editor.rs 454-491, when it does not panic
perform_search(ed) ==
    IF ed.search_buffer = << >> THEN ed
    ELSE LET found == search_forward(ed, ed.cursor_row, ed.cursor_col + 1, ed.cursor_row)
             wrapped == search_wrap_forward(ed, ed.cursor_row, 0)
         IN  IF found.row = Panicked THEN ed
             ELSE IF found.row # NoPos
             THEN [ed EXCEPT !.cursor_row = found.row, !.cursor_col = found.col]
             ELSE IF wrapped.row # NoPos
             THEN [ed EXCEPT !.cursor_row = wrapped.row, !.cursor_col = wrapped.col,
                             !.message = Message("Search wrapped", << >>)]
             ELSE [ed EXCEPT !.message = Message("Pattern not found: ", ed.search_buffer)]

\* Editor::search_next, editor.rs 493-495
search_next(ed) == perform_search(ed)

\* The first loop of search_prev, editor.rs 505-515, from `row` down
RECURSIVE search_backward(_, _, _, _)
search_backward(ed, start_row, start_col, row) ==
    IF row < 0 THEN [row |-> NoPos, col |-> 0]
    ELSE IF ~has_line(ed, row) THEN search_backward(ed, start_row, start_col, row - 1)
    ELSE LET line_str == to_string(ed.buffer.lines[row + 1])
             pattern == to_string(ed.search_buffer)
             search_end == IF row = start_row THEN start_col ELSE Len(line_str)
             pos == rfind(Slice(line_str, 0, search_end), pattern, search_end - Len(pattern))
         IN  IF ~is_char_boundary(ed.buffer.lines[row + 1], search_end)
             THEN [row |-> Panicked, col |-> 0]
             ELSE IF pos # NoPos THEN [row |-> row, col |-> pos]
             ELSE search_backward(ed, start_row, start_col, row - 1)

\* The second loop of search_prev, editor.rs 518-528
RECURSIVE search_wrap_backward(_, _, _)
search_wrap_backward(ed, start_row, row) ==
    IF row < start_row THEN [row |-> NoPos, col |-> 0]
    ELSE IF ~has_line(ed, row) THEN search_wrap_backward(ed, start_row, row - 1)
    ELSE LET line_str == to_string(ed.buffer.lines[row + 1])
             pattern == to_string(ed.search_buffer)
             pos == rfind(line_str, pattern, Len(line_str) - Len(pattern))
         IN  IF pos # NoPos THEN [row |-> row, col |-> pos]
             ELSE search_wrap_backward(ed, start_row, row - 1)

\* Editor::search_prev panics, editor.rs 510
search_prev_panics(ed) ==
    /\ ed.search_buffer # << >>
    /\ search_backward(ed, ed.cursor_row, ed.cursor_col, ed.cursor_row).row = Panicked

\* Editor::search_prev, editor.rs 497-532, when it does not panic
search_prev(ed) ==
    IF ed.search_buffer = << >> THEN ed
    ELSE LET found == search_backward(ed, ed.cursor_row, ed.cursor_col, ed.cursor_row)
             wrapped == search_wrap_backward(ed, ed.cursor_row, line_count(ed.buffer) - 1)
         IN  IF found.row = Panicked THEN ed
             ELSE IF found.row # NoPos
             THEN [ed EXCEPT !.cursor_row = found.row, !.cursor_col = found.col]
             ELSE IF wrapped.row # NoPos
             THEN [ed EXCEPT !.cursor_row = wrapped.row, !.cursor_col = wrapped.col,
                             !.message = Message("Search wrapped", << >>)]
             ELSE [ed EXCEPT !.message = Message("Pattern not found: ", ed.search_buffer)]

\* What the file system answers while one key is handled: whether the
\* operations succeed, whether the path named or entered is a directory,
\* and the lines reader.lines() yields from the file named or entered.
Io(io_ok, is_dir, read) == [io_ok |-> io_ok, is_dir |-> is_dir, read |-> read]

\* PathBuf::from(path): paths are one character long here, and the string of
\* one character is that character.
PathBuf(word) == word[1]

\* The path Browser::enter returns for a file entry.
EnteredPath == "b"

\* Editor::save_file, editor.rs 443-451
save_file(ed, io) ==
    IF ed.buffer.path # NoPath
    THEN LET r == save(ed.buffer, io.io_ok)
         IN  IF r.ok
             THEN Ok([ed EXCEPT !.buffer = r.buffer, !.message = Message("File saved", << >>)])
             ELSE Err([ed EXCEPT !.buffer = r.buffer])
    ELSE Ok([ed EXCEPT !.message = Message("No filename. Use :w <filename>", << >>)])

\* The assignments of Editor::open after Buffer::from_file, editor.rs 67-73
opened(ed, b) ==
    [ed EXCEPT !.buffer = b, !.highlighter = HighlighterNew(buffer_extension(b)),
               !.cursor_row = 0, !.cursor_col = 0, !.scroll_row = 0, !.scroll_col = 0,
               !.mode = "Normal"]

\* Mutant: the cursor, the scroll offsets and the mode are reset before the
\* file is read.
open_ResetsFirst(ed, path, io) ==
    IF io.is_dir
    THEN IF io.io_ok THEN Ok([ed EXCEPT !.browser = TRUE, !.mode = "Browser"]) ELSE Err(ed)
    ELSE IF io.io_ok
         THEN Ok(opened(ed, from_file(path, io.read, path \in ReadOnlyPaths)))
         ELSE Err(opened(ed, ed.buffer))

\* Editor::open, editor.rs 62-76
open(ed, path, io) ==
    IF io.is_dir
    THEN IF io.io_ok THEN Ok([ed EXCEPT !.browser = TRUE, !.mode = "Browser"]) ELSE Err(ed)
    ELSE IF io.io_ok
         THEN Ok(opened(ed, from_file(path, io.read, path \in ReadOnlyPaths)))
         ELSE Err(ed)

\* Mutant: the browser is built and the mode is left as it is.
open_browser_KeepsMode(ed, io) ==
    IF io.io_ok THEN Ok([ed EXCEPT !.browser = TRUE]) ELSE Err(ed)

\* Browser::new(&dir)? and the two assignments after it, editor.rs 205-206, 420-421
open_browser(ed, io) ==
    IF io.io_ok THEN Ok([ed EXCEPT !.browser = TRUE, !.mode = "Browser"]) ELSE Err(ed)

\* str::trim().split_whitespace() on a text whose only whitespace is the
\* space: the words, `cur` being the word begun.
RECURSIVE split_whitespace(_, _)
split_whitespace(text, cur) ==
    IF text = << >>
    THEN IF cur = << >> THEN << >> ELSE <<cur>>
    ELSE IF Head(text) = " "
         THEN (IF cur = << >> THEN << >> ELSE <<cur>>) \o split_whitespace(Tail(text), << >>)
    ELSE split_whitespace(Tail(text), Append(cur, Head(text)))

Digits == <<"0", "1", "2", "3", "4", "5", "6", "7", "8", "9">>

DigitValue(c) == (CHOOSE d \in 1 .. 10 : Digits[d] = c) - 1

NoNumber == -1

\* str::parse::<usize>: decimal digits after an optional "+"; NoNumber is Err.
\* The words are short, so no value is out of range.
RECURSIVE parse_digits(_, _)
parse_digits(word, acc) ==
    IF word = << >> THEN acc
    ELSE IF ~is_ascii_digit(Head(word)) THEN NoNumber
    ELSE parse_digits(Tail(word), acc * 10 + DigitValue(Head(word)))

parse_usize(word) ==
    LET digits == IF word # << >> /\ Head(word) = "+" THEN Tail(word) ELSE word
    IN  IF digits = << >> THEN NoNumber ELSE parse_digits(digits, 0)

\* execute_command, ["wq"], editor.rs 399-402
execute_wq(ed, io) ==
    LET r == save_file(ed, io)
    IN  IF r.ok THEN Ok([r.editor EXCEPT !.quit = TRUE]) ELSE r

\* Mutant: q quits whatever the modified flag says.
execute_q_Always(ed) == [ed EXCEPT !.quit = TRUE]

\* execute_command, ["q"] | ["quit"], editor.rs 382-388; Ctrl+q, editor.rs 209-215
execute_q(ed) ==
    IF ed.buffer.modified
    THEN [ed EXCEPT !.message = Message("Unsaved changes! Use :q! to force quit", << >>)]
    ELSE [ed EXCEPT !.quit = TRUE]

\* Editor::execute_command, editor.rs 378-440
execute_command(ed, cmd, io) ==
    LET parts == split_whitespace(cmd, << >>)
        n == Len(parts)
    IN  IF n = 1 /\ parts[1] \in {<<"q">>, <<"q", "u", "i", "t">>}
        THEN Ok(execute_q(ed))
        ELSE IF n = 1 /\ parts[1] \in {<<"q", "!">>, <<"q", "u", "i", "t", "!">>}
        THEN Ok([ed EXCEPT !.quit = TRUE])
        ELSE IF n = 1 /\ parts[1] \in {<<"w">>, <<"w", "r", "i", "t", "e">>}
        THEN save_file(ed, io)
        ELSE IF n = 2 /\ parts[1] \in {<<"w">>, <<"w", "r", "i", "t", "e">>}
        THEN LET r == save_as(ed.buffer, PathBuf(parts[2]), io.io_ok)
             IN  IF r.ok
                 THEN Ok([ed EXCEPT !.buffer = r.buffer,
                                    !.message = Message("Saved to ", parts[2])])
                 ELSE Err([ed EXCEPT !.buffer = r.buffer])
        ELSE IF n = 1 /\ parts[1] = <<"w", "q">>
        THEN execute_wq(ed, io)
        ELSE IF n = 2 /\ parts[1] \in {<<"e">>, <<"e", "d", "i", "t">>}
        THEN open(ed, PathBuf(parts[2]), io)
        ELSE IF n = 1 /\ parts[1] \in {<<"e">>, <<"e", "d", "i", "t">>}
        THEN open_browser(ed, io)
        ELSE IF n = 1 /\ parse_usize(parts[1]) # NoNumber
        THEN LET line == parse_usize(parts[1])
                 target == saturating_sub(line, 1)
             IN  Ok([ed EXCEPT !.cursor_row = IF target <= line_count(ed.buffer) - 1
                                              THEN target
                                              ELSE line_count(ed.buffer) - 1,
                               !.cursor_col = 0])
        ELSE IF n = 2 /\ parts[1] = <<"s", "e", "t">>
                /\ parts[2] \in {<<"n", "u", "m", "b", "e", "r">>, <<"n", "u">>}
        THEN Ok([ed EXCEPT !.message = Message("Line numbers enabled", << >>)])
        ELSE IF n = 1 /\ parts[1] \in {<<"h", "e", "l", "p">>, <<"h">>}
        THEN Ok([ed EXCEPT !.message = Message("Commands: :w :q :wq :e <file> :<num>", << >>)])
        ELSE Ok([ed EXCEPT !.message = Message("Unknown command: ", cmd)])

\* handle_normal_key, Key::Char('a') and Key::Char('A'), editor.rs 140-148
normal_key_append(ed, to_end) ==
    LET e1 == IF to_end THEN move_cursor_end_of_line(ed) ELSE ed
        e2 == move_cursor_right(e1)
    IN  [e2 EXCEPT !.mode = "Insert"]

\* handle_search_key, Key::Enter, editor.rs 324-327
search_key_enter(ed) == perform_search([ed EXCEPT !.mode = "Normal"])

\* Editor::handle_normal_key, editor.rs 118-225
handle_normal_key(ed, key, io) ==
    LET b == ed.buffer
        r == CASE key \in {Char("h"), Key("Left")} -> Ok(move_cursor_left(ed))
               [] key \in {Char("j"), Key("Down")} -> Ok(move_cursor_down(ed))
               [] key \in {Char("k"), Key("Up")} -> Ok(move_cursor_up(ed))
               [] key \in {Char("l"), Key("Right")} -> Ok(move_cursor_right(ed))
               [] key \in {Char("0"), Key("Home")} -> Ok([ed EXCEPT !.cursor_col = 0])
               [] key \in {Char("$"), Key("End")} -> Ok(move_cursor_end_of_line(ed))
               [] key = Char("g") -> Ok([ed EXCEPT !.cursor_row = 0])
               [] key = Char("G") ->
                      Ok([ed EXCEPT !.cursor_row = saturating_sub(line_count(b), 1)])
               [] key = Char("w") -> Ok(move_word_forward(ed))
               [] key = Char("b") -> Ok(move_word_backward(ed))
               [] key \in {Key("PageUp"), Ctrl("u")} -> Ok(page_up(ed))
               [] key \in {Key("PageDown"), Ctrl("d")} -> Ok(page_down(ed))
               [] key = Char("i") -> Ok([ed EXCEPT !.mode = "Insert"])
               [] key = Char("I") -> Ok([ed EXCEPT !.cursor_col = 0, !.mode = "Insert"])
               [] key = Char("a") -> Ok(normal_key_append(ed, FALSE))
               [] key = Char("A") -> Ok(normal_key_append(ed, TRUE))
               [] key = Char("o") ->
                      LET row == IF ed.cursor_row + 1 <= line_count(b)
                                 THEN ed.cursor_row + 1 ELSE line_count(b)
                      IN  Ok([ed EXCEPT !.cursor_row = row,
                                        !.buffer = insert_empty_line(b, row),
                                        !.cursor_col = 0, !.mode = "Insert"])
               [] key = Char("O") ->
                      Ok([ed EXCEPT !.buffer = insert_empty_line(b, ed.cursor_row),
                                    !.cursor_col = 0, !.mode = "Insert"])
               [] key = Char(":") ->
                      Ok([ed EXCEPT !.command_buffer = << >>, !.mode = "Command"])
               [] key = Char("/") ->
                      Ok([ed EXCEPT !.search_buffer = << >>, !.search_direction = 1,
                                    !.mode = "Search"])
               [] key = Char("?") ->
                      Ok([ed EXCEPT !.search_buffer = << >>, !.search_direction = -1,
                                    !.mode = "Search"])
               [] key = Char("n") -> Ok(search_next(ed))
               [] key = Char("N") -> Ok(search_prev(ed))
               [] key = Char("x") ->
                      IF has_line(ed, ed.cursor_row) /\ ed.cursor_col < line_len(ed, ed.cursor_row)
                      THEN Ok([ed EXCEPT !.buffer =
                                            delete_char(b, ed.cursor_row, ed.cursor_col).buffer])
                      ELSE Ok(ed)
               [] key = Char("d") ->
                      LET after == normal_key_d(b, ed.cursor_row)
                      IN  Ok([ed EXCEPT !.buffer = after,
                                        !.cursor_row =
                                            IF line_count(b) > 1 /\ @ >= line_count(after)
                                            THEN line_count(after) - 1 ELSE @])
               [] key = Char("e") -> open_browser(ed, io)
               [] key = Ctrl("q") -> Ok(execute_q(ed))
               [] key = Ctrl("s") -> save_file(ed, io)
               [] OTHER -> Ok(ed)
    IN  IF r.ok THEN Ok(clamp_cursor(r.editor)) ELSE r

\* handle_insert_key, Key::Tab, editor.rs 272-278: n more spaces
RECURSIVE insert_spaces(_, _)
insert_spaces(ed, n) ==
    IF n = 0 THEN ed
    ELSE insert_spaces([ed EXCEPT !.buffer = insert_char(@, ed.cursor_row, ed.cursor_col, " "),
                                  !.cursor_col = @ + 1], n - 1)

\* Editor::handle_insert_key, editor.rs 228-291
handle_insert_key(ed, key, io) ==
    LET b == ed.buffer
        r == CASE key = Key("Escape") -> Ok(move_cursor_left([ed EXCEPT !.mode = "Normal"]))
               [] key.kind = "Char" ->
                      Ok([ed EXCEPT !.buffer = insert_char(b, ed.cursor_row, ed.cursor_col, key.c),
                                    !.cursor_col = @ + 1])
               [] key = Key("Enter") ->
                      Ok([ed EXCEPT !.buffer = insert_newline(b, ed.cursor_row, ed.cursor_col),
                                    !.cursor_row = @ + 1, !.cursor_col = 0])
               [] key = Key("Backspace") ->
                      IF ed.cursor_col > 0
                      THEN Ok([ed EXCEPT !.cursor_col = @ - 1,
                                         !.buffer = delete_char(b, ed.cursor_row,
                                                                ed.cursor_col - 1).buffer])
                      ELSE IF ed.cursor_row > 0
                      THEN LET prev_line_len == IF has_line(ed, ed.cursor_row - 1)
                                                THEN line_len(ed, ed.cursor_row - 1) ELSE 0
                           IN  Ok([ed EXCEPT !.buffer = delete_line(b, ed.cursor_row),
                                             !.cursor_row = @ - 1,
                                             !.cursor_col = prev_line_len])
                      ELSE Ok(ed)
               [] key = Key("Delete") ->
                      Ok([ed EXCEPT !.buffer = insert_key_delete(b, ed.cursor_row, ed.cursor_col)])
               [] key = Key("Tab") -> Ok(insert_spaces(ed, 4))
               [] key = Key("Left") -> Ok(move_cursor_left(ed))
               [] key = Key("Right") -> Ok(move_cursor_right(ed))
               [] key = Key("Up") -> Ok(move_cursor_up(ed))
               [] key = Key("Down") -> Ok(move_cursor_down(ed))
               [] key = Key("Home") -> Ok([ed EXCEPT !.cursor_col = 0])
               [] key = Key("End") -> Ok(move_cursor_end_of_line(ed))
               [] key = Ctrl("s") -> save_file(ed, io)
               [] OTHER -> Ok(ed)
    IN  IF r.ok THEN Ok(clamp_cursor(r.editor)) ELSE r

\* String::pop
pop(text) == IF text = << >> THEN text ELSE SubSeq(text, 1, Len(text) - 1)

\* Editor::handle_command_key, editor.rs 294-316
handle_command_key(ed, key, io) ==
    CASE key = Key("Escape") -> Ok([ed EXCEPT !.mode = "Normal"])
      [] key = Key("Enter") ->
             execute_command([ed EXCEPT !.mode = "Normal"], ed.command_buffer, io)
      [] key.kind = "Char" -> Ok([ed EXCEPT !.command_buffer = Append(@, key.c)])
      [] key = Key("Backspace") ->
             Ok([ed EXCEPT !.command_buffer = pop(@),
                           !.mode = IF pop(ed.command_buffer) = << >> THEN "Normal" ELSE @])
      [] OTHER -> Ok(ed)

\* Editor::handle_search_key, editor.rs 319-340
handle_search_key(ed, key) ==
    CASE key = Key("Escape") -> Ok([ed EXCEPT !.mode = "Normal"])
      [] key = Key("Enter") -> Ok(search_key_enter(ed))
      [] key.kind = "Char" -> Ok([ed EXCEPT !.search_buffer = Append(@, key.c)])
      [] key = Key("Backspace") ->
             Ok([ed EXCEPT !.search_buffer = pop(@),
                           !.mode = IF pop(ed.search_buffer) = << >> THEN "Normal" ELSE @])
      [] OTHER -> Ok(ed)

\* Editor::handle_browser_key, editor.rs 343-375.  What the Browser holds is
\* not part of the Editor record: its methods either succeed, leaving the
\* Editor as it is, or fail; enter returns a path for a file entry.
handle_browser_key(ed, key, io) ==
    IF ed.browser
    THEN CASE key \in {Key("Escape"), Char("q")} ->
                  Ok([ed EXCEPT !.browser = FALSE, !.mode = "Normal"])
           [] key \in {Key("Up"), Char("k"), Key("Down"), Char("j"), Key("PageUp"),
                       Key("PageDown"), Key("Home"), Char("g"), Key("End"), Char("G")} ->
                  Ok(ed)
           [] key \in {Key("Left"), Char("h"), Key("Backspace"), Char("."), Char("r")} ->
                  IF io.io_ok THEN Ok(ed) ELSE Err(ed)
           [] key \in {Key("Enter"), Key("Right"), Char("l")} ->
                  IF ~io.io_ok THEN Err(ed)
                  ELSE IF io.is_dir THEN Ok(ed)
                  ELSE Ok([opened(ed, from_file(EnteredPath, io.read,
                                                EnteredPath \in ReadOnlyPaths))
                              EXCEPT !.browser = FALSE])
           [] OTHER -> Ok(ed)
    ELSE Ok(ed)

\* The keys whose handlers slice a str: n, N in Normal mode (editor.rs
\* 174-175) and Enter in Search mode (editor.rs 324-327).
handle_key_panics(ed, key) ==
    CASE ed.mode = "Normal" /\ key = Char("n") -> perform_search_panics(ed)
      [] ed.mode = "Normal" /\ key = Char("N") -> search_prev_panics(ed)
      [] ed.mode = "Search" /\ key = Key("Enter") -> perform_search_panics(ed)
      [] OTHER -> FALSE

\* Editor::handle_key, editor.rs 103-115
handle_key(ed, key, io) ==
    LET e0 == [ed EXCEPT !.message = NoMessage]
    IN  CASE e0.mode = "Normal" -> handle_normal_key(e0, key, io)
          [] e0.mode = "Insert" -> handle_insert_key(e0, key, io)
          [] e0.mode = "Command" -> handle_command_key(e0, key, io)
          [] e0.mode = "Search" -> handle_search_key(e0, key)
          [] e0.mode = "Browser" -> handle_browser_key(e0, key, io)

(***************************************************************************)
(* The directory browser, browser.rs.  A name is a text and a path is the  *)
(* sequence of the names that lead to it from the root.                    *)
(***************************************************************************)
Root == << >>

\* Path::parent is None at the root
has_parent(path) == path # Root

parent(path) == SubSeq(path, 1, Len(path) - 1)

Lowers ==
    <<"a", "b", "c", "d", "e", "f", "g", "h", "i", "j", "k", "l", "m", "n", "o", "p",
      "q", "r", "s", "t", "u", "v", "w", "x", "y", "z">>

Uppers ==
    <<"A", "B", "C", "D", "E", "F", "G", "H", "I", "J", "K", "L", "M", "N", "O", "P",
      "Q", "R", "S", "T", "U", "V", "W", "X", "Y", "Z">>

IndexOf(letters, c) == CHOOSE k \in 1 .. Len(letters) : letters[k] = c

\* str::to_lowercase on ASCII
to_lowercase(name) ==
    [k \in 1 .. Len(name) |->
        IF name[k] \in AsciiUpper THEN Lowers[IndexOf(Uppers, name[k])] ELSE name[k]]

\* The code point of a letter or of the dot
code_point(c) ==
    IF c \in AsciiUpper THEN 64 + IndexOf(Uppers, c)
    ELSE IF c \in AsciiLower THEN 96 + IndexOf(Lowers, c)
    ELSE 46

\* Ord for str: a < b
RECURSIVE str_less(_, _)
str_less(a, b) ==
    IF b = << >> THEN FALSE
    ELSE IF a = << >> THEN TRUE
    ELSE IF code_point(Head(a)) # code_point(Head(b))
         THEN code_point(Head(a)) < code_point(Head(b))
         ELSE str_less(Tail(a), Tail(b))

\* An Entry, browser.rs 16-22, without the size and the extension
Entry(name, path, entry_type) == [name |-> name, path |-> path, entry_type |-> entry_type]

is_directory(e) == e.entry_type = "Directory"

\* Ord for Entry, browser.rs 65-77: a < b
entry_less(a, b) ==
    IF is_directory(a) = is_directory(b)
    THEN str_less(to_lowercase(a.name), to_lowercase(b.name))
    ELSE is_directory(a)

\* One step of the stable sort: e, pushed after the entries of `sorted`,
\* goes behind every entry that is not greater.
RECURSIVE sort_insert(_, _)
sort_insert(sorted, e) ==
    IF sorted = << >> THEN <<e>>
    ELSE IF entry_less(e, Head(sorted)) THEN <<e>> \o sorted
    ELSE <<Head(sorted)>> \o sort_insert(Tail(sorted), e)

\* Vec::sort, browser.rs 167
RECURSIVE sort(_)
sort(entries) ==
    IF entries = << >> THEN << >>
    ELSE sort_insert(sort(SubSeq(entries, 1, Len(entries) - 1)), entries[Len(entries)])

\* What was called on the Browser last, and whether it returned Ok
Call(op, ok) == [op |-> op, ok |-> ok]

NoCall == Call("None", TRUE)

\* What the file system answers to one listing: the names read in the
\* order read_dir yields them, which of them are directories, and whether
\* reading came to its end (io_ok) or failed after them.
Listed(io_ok, names, directories) ==
    [io_ok |-> io_ok, names |-> names, directories |-> directories]

\* A browser and what the call on it returned: Ok or Err, and the file
\* path enter returns, as a sequence of no or one path.
BrowserResult(br, ok, file) == [browser |-> br, ok |-> ok, file |-> file]

\* The Browser that Browser::new builds before it refreshes, browser.rs 98-104
BrowserNew(dir) ==
    [current_dir |-> dir, entries |-> << >>, selected |-> 0, scroll_offset |-> 0,
     show_hidden |-> FALSE]

\* The entries refresh pushes, browser.rs 114-164
pushed_entries(br, io) ==
    LET shown == SelectSeq(io.names, LAMBDA name : br.show_hidden \/ Head(name) # ".")
        up == IF has_parent(br.current_dir)
              THEN <<Entry(<<".", ".">>, parent(br.current_dir), "Directory")>>
              ELSE << >>
    IN  up \o [k \in 1 .. Len(shown) |->
                  Entry(shown[k], Append(br.current_dir, shown[k]),
                        IF shown[k] \in io.directories THEN "Directory" ELSE "File")]

\* Browser::refresh, browser.rs 111-175
refresh(br, io) ==
    LET pushed == pushed_entries(br, io)
        sorted == sort(pushed)
    IN  IF ~io.io_ok THEN BrowserResult([br EXCEPT !.entries = pushed], FALSE, << >>)
        ELSE BrowserResult([br EXCEPT !.entries = sorted,
                                 !.selected = IF br.selected >= Len(sorted) /\ sorted # << >>
                                              THEN Len(sorted) - 1 ELSE br.selected],
                      TRUE, << >>)

\* Browser::new, browser.rs 89-108, on a directory
new_browser(dir, io) == refresh(BrowserNew(dir), io)

\* Browser::enter, browser.rs 178-194, when self.entries[self.selected]
\* does not panic
enter(br, io) ==
    IF br.entries = << >> THEN BrowserResult(br, TRUE, << >>)
    ELSE LET e == br.entries[br.selected + 1]
         IN  IF is_directory(e)
             THEN refresh([br EXCEPT !.current_dir = e.path, !.selected = 0,
                                     !.scroll_offset = 0], io)
             ELSE BrowserResult(br, TRUE, <<e.path>>)

\* Iterator::position of the entry whose path is `path`, or NoPos
position(entries, path) ==
    IF \E k \in 1 .. Len(entries) : entries[k].path = path
    THEN (CHOOSE k \in 1 .. Len(entries) :
              /\ entries[k].path = path
              /\ \A j \in 1 .. k - 1 : entries[j].path # path) - 1
    ELSE NoPos

\* Browser::go_up, browser.rs 197-209
go_up(br, io) ==
    IF has_parent(br.current_dir)
    THEN LET old_dir == br.current_dir
             r == refresh([br EXCEPT !.current_dir = parent(br.current_dir)], io)
             pos == position(r.browser.entries, old_dir)
         IN  IF ~r.ok THEN r
             ELSE IF pos # NoPos THEN BrowserResult([r.browser EXCEPT !.selected = pos], TRUE, << >>)
             ELSE r
    ELSE BrowserResult(br, TRUE, << >>)

\* Browser::move_up, browser.rs 212-216
move_up(br) == IF br.selected > 0 THEN [br EXCEPT !.selected = @ - 1] ELSE br

\* Browser::move_down, browser.rs 219-223
move_down(br) ==
    IF br.selected + 1 < Len(br.entries) THEN [br EXCEPT !.selected = @ + 1] ELSE br

\* Browser::page_up, browser.rs 226-232
browser_page_up(br, page_size) ==
    IF br.selected > page_size THEN [br EXCEPT !.selected = @ - page_size]
    ELSE [br EXCEPT !.selected = 0]

\* Browser::page_down, browser.rs 234-236
browser_page_down(br, page_size) ==
    LET moved == br.selected + page_size
        last_index == saturating_sub(Len(br.entries), 1)
    IN  [br EXCEPT !.selected = IF moved <= last_index THEN moved ELSE last_index]

\* Browser::go_to_first, browser.rs 239-241
go_to_first(br) == [br EXCEPT !.selected = 0]

\* Browser::go_to_last, browser.rs 244-248
go_to_last(br) ==
    IF br.entries # << >> THEN [br EXCEPT !.selected = Len(br.entries) - 1] ELSE br

\* Browser::toggle_hidden, browser.rs 251-254
toggle_hidden(br, io) == refresh([br EXCEPT !.show_hidden = ~@], io)

(***************************************************************************)
(* The highlighter specifications: one call of highlight_line on a line    *)
(* and a caller state drawn from the bounded sets below, for a Highlighter *)
(* of any language.                                                        *)
(***************************************************************************)
HlMaxLen == 4

HlAlphabet == {"/", "*", "\"", "\\", "a", " "}

HlLines == UNION {[1 .. n -> HlAlphabet] : n \in 0 .. HlMaxLen}

HlEntryStates ==
    [in_multiline_comment : BOOLEAN, in_string : {NoChar, "\""}]

\* Comment markers only, on longer lines: a line can hold a start marker
\* and two end markers.
HlCommentMaxLen == 6

HlCommentAlphabet == {"/", "*", "a"}

HlCommentLines == UNION {[1 .. n -> HlCommentAlphabet] : n \in 0 .. HlCommentMaxLen}

\* A wider alphabet on shorter lines: every branch of the loop is taken.
HlWideMaxLen == 3

HlWideAlphabet == {"/", "*", "\"", "\\", "a", " ", "'", "#", "1", "."}

HlWideLines == UNION {[1 .. n -> HlWideAlphabet] : n \in 0 .. HlWideMaxLen}

HlWideEntryStates ==
    [in_multiline_comment : BOOLEAN, in_string : {NoChar, "\""}]

VARIABLES
    language,   \* Highlighter.language: NoLanguage or an index into LANGUAGES
    chars,      \* highlight_line: the line, as chars
    i,          \* highlight_line: the scan index
    tokens,     \* highlight_line: the tokens pushed so far / returned
    state,      \* the caller's HighlightState, mutated in place
    entry,      \* the HighlightState the current call was entered with
    pc          \* "call" | "loop" (inside the while loop) | "returned"

VARIABLES
    buffer,     \* Editor.buffer: [lines, path, modified, readonly]
    saved,      \* history: buffer.lines at the latest new / from_file / successful save
    origin,     \* history: which of "new", "from_file", "save" that was
    last        \* history: NoOp, or the operation that ended the run, its
                \* arguments, the buffer before it and what it returned

VARIABLES
    line,       \* a Line (its chars), the receiver of the Line operations
    other,      \* the Line returned by split_off, then the argument of append
    ret,        \* the Option<char> returned by Line::delete
    line0,      \* history: the line before the first operation
    largs,      \* history: the arguments of the first operation
    lpc         \* which Line operations have been applied

VARIABLES
    disk,       \* the file at the buffer's path: NoFile or File(its bytes)
    fbuffer,    \* the Buffer that is saved and loaded
    fsource,    \* history: the Buffer before the first operation
    fpc         \* which of save and from_file have been applied

VARIABLES
    extension,  \* detect_language: its argument, an extension or NoExtension
    dindex,     \* detect_language: how many entries of LANGUAGES find has passed
    detected,   \* detect_language: the Option<&Language> returned
    dpc         \* "call" | "find" (inside the find) | "returned"

VARIABLES
    dhighlighter,    \* draw_editor: Editor.highlighter.language
    dlines,          \* draw_editor: Editor.buffer.lines
    dcursor_row,     \* draw_editor: Editor.cursor_row
    dscroll_row,     \* draw_editor: Editor.scroll_row
    content_height,  \* draw_editor: size.rows - 2, saturating
    highlight_state, \* draw_editor: the local HighlightState
    drow,            \* draw_editor: `row` of the first loop, `screen_row` of the second
    tokenized,       \* history: the file rows drawn in this frame, in order, each
                     \* with the state highlight_line was given
    drawpc           \* "frame" | "skip" | "content" | "key"

VARIABLES
    editor,     \* the Editor
    exit,       \* "running", or what Editor::run returned: "Ok" | "Err", or
                \* "panic"
    handled,    \* history: the key handled last and the mode it was handled
                \* in, in the specifications that record it
    previous    \* history: the Editor before the key handled last and the
                \* key handled before that one, in the specifications that
                \* record them

\* One Browser and the calls made on it.
VARIABLES
    browser,    \* the Browser
    brstatus,   \* "running", or "panic" once a call has panicked
    brlast      \* history: the call made last

\* The cursor, the scroll offsets and the terminal size, frame after frame.
VARIABLES
    vrows,        \* Editor.size.rows
    vcols,        \* Editor.size.cols
    vcursor_row,  \* Editor.cursor_row
    vcursor_col,  \* Editor.cursor_col
    vscroll_row,  \* Editor.scroll_row
    vscroll_col,  \* Editor.scroll_col
    viewpc        \* "size" (top of the loop of Editor::run) | "scrolled" (after
                  \* update_scroll) | "key" (the frame is drawn) | "idle"

hlvars == <<language, chars, i, tokens, state, entry, pc>>

bufvars == <<buffer, saved, origin, last>>

linevars == <<line, other, ret, line0, largs, lpc>>

filevars == <<disk, fbuffer, fsource, fpc>>

detectvars == <<extension, dindex, detected, dpc>>

drawvars == <<dhighlighter, dlines, dcursor_row, dscroll_row, content_height, highlight_state, drow, tokenized, drawpc>>

edvars == <<editor, exit, handled, previous>>

brvars == <<browser, brstatus, brlast>>

viewvars == <<vrows, vcols, vcursor_row, vcursor_col, vscroll_row, vscroll_col, viewpc>>

vars == <<language, chars, i, tokens, state, entry, pc, buffer, saved, origin, last,
          line, other, ret, line0, largs, lpc, disk, fbuffer, fsource, fpc,
          extension, dindex, detected, dpc,
          dhighlighter, dlines, dcursor_row, dscroll_row, content_height, highlight_state, drow, tokenized, drawpc,
          editor, exit, handled, previous,
          browser, brstatus, brlast,
          vrows, vcols, vcursor_row, vcursor_col, vscroll_row, vscroll_col, viewpc>>

\* What the actions of one specification leave alone.
exceptHl == <<bufvars, linevars, filevars, detectvars, drawvars, edvars, brvars, viewvars>>

exceptBuf == <<hlvars, linevars, filevars, detectvars, drawvars, edvars, brvars, viewvars>>

exceptLine == <<hlvars, bufvars, filevars, detectvars, drawvars, edvars, brvars, viewvars>>

exceptFile == <<hlvars, bufvars, linevars, detectvars, drawvars, edvars, brvars, viewvars>>

exceptDetect == <<hlvars, bufvars, linevars, filevars, drawvars, edvars, brvars, viewvars>>

exceptDraw == <<hlvars, bufvars, linevars, filevars, detectvars, edvars, brvars, viewvars>>

exceptEd == <<hlvars, bufvars, linevars, filevars, detectvars, drawvars, brvars, viewvars>>

exceptBr == <<hlvars, bufvars, linevars, filevars, detectvars, drawvars, edvars, viewvars>>

exceptView == <<hlvars, bufvars, linevars, filevars, detectvars, drawvars, edvars, brvars>>

NoFile == [exists |-> FALSE, bytes |-> << >>]

File(bytes) == [exists |-> TRUE, bytes |-> bytes]

NoOp == [op |-> "none"]

NoArgs == [idx |-> 0, c |-> NoChar]

\* No highlight_line call is in progress.
HlIdle ==
    /\ language = NoLanguage
    /\ chars = << >>
    /\ i = 0
    /\ tokens = << >>
    /\ state = DefaultHighlightState
    /\ entry = DefaultHighlightState
    /\ pc = "idle"

\* The editor's buffer as Editor::new builds it (editor.rs 44).
BufIdle ==
    /\ buffer = BufferNew
    /\ saved = BufferNew.lines
    /\ origin = "new"
    /\ last = NoOp

\* No Line is examined on its own.
LineIdle ==
    /\ line = << >>
    /\ other = << >>
    /\ ret = NoChar
    /\ line0 = << >>
    /\ largs = NoArgs
    /\ lpc = "idle"

\* No file is written or read.
FileIdle ==
    /\ disk = NoFile
    /\ fbuffer = BufferNew
    /\ fsource = BufferNew
    /\ fpc = "idle"

\* detect_language is not running.
DetectIdle ==
    /\ extension = NoExtension
    /\ dindex = 0
    /\ detected = NoLanguage
    /\ dpc = "idle"

\* Nothing is drawn.
DrawIdle ==
    /\ dhighlighter = NoLanguage
    /\ dlines = <<LineNew>>
    /\ dcursor_row = 0
    /\ dscroll_row = 0
    /\ content_height = 0
    /\ highlight_state = DefaultHighlightState
    /\ drow = 0
    /\ tokenized = << >>
    /\ drawpc = "idle"

\* No Editor runs.
EdIdle ==
    /\ editor = EditorNew
    /\ exit = "idle"
    /\ handled = NoHandled
    /\ previous = NoBefore

\* No Browser is there.
BrIdle ==
    /\ browser = BrowserNew(Root)
    /\ brstatus = "idle"
    /\ brlast = NoCall

\* Nothing is drawn.
ViewIdle ==
    /\ vrows = 0
    /\ vcols = 0
    /\ vcursor_row = 0
    /\ vcursor_col = 0
    /\ vscroll_row = 0
    /\ vscroll_col = 0
    /\ viewpc = "idle"

\* The initial condition of everything one specification leaves alone.
IdleExceptHl == BufIdle /\ LineIdle /\ FileIdle /\ DetectIdle /\ DrawIdle /\ EdIdle /\ BrIdle /\ ViewIdle

IdleExceptBuf == HlIdle /\ LineIdle /\ FileIdle /\ DetectIdle /\ DrawIdle /\ EdIdle /\ BrIdle /\ ViewIdle

IdleExceptLine == HlIdle /\ BufIdle /\ FileIdle /\ DetectIdle /\ DrawIdle /\ EdIdle /\ BrIdle /\ ViewIdle

IdleExceptFile == HlIdle /\ BufIdle /\ LineIdle /\ DetectIdle /\ DrawIdle /\ EdIdle /\ BrIdle /\ ViewIdle

IdleExceptDetect == HlIdle /\ BufIdle /\ LineIdle /\ FileIdle /\ DrawIdle /\ EdIdle /\ BrIdle /\ ViewIdle

IdleExceptDraw == HlIdle /\ BufIdle /\ LineIdle /\ FileIdle /\ DetectIdle /\ EdIdle /\ BrIdle /\ ViewIdle

IdleExceptEd == HlIdle /\ BufIdle /\ LineIdle /\ FileIdle /\ DetectIdle /\ DrawIdle /\ BrIdle /\ ViewIdle

IdleExceptBr == HlIdle /\ BufIdle /\ LineIdle /\ FileIdle /\ DetectIdle /\ DrawIdle /\ EdIdle /\ ViewIdle

IdleExceptView == HlIdle /\ BufIdle /\ LineIdle /\ FileIdle /\ DetectIdle /\ DrawIdle /\ EdIdle /\ BrIdle

Lang == LANGUAGES[language]

HlInitWith(lines, entries) ==
    /\ language \in LanguageIds
    /\ chars \in lines
    /\ state \in entries
    /\ entry = state
    /\ i = 0
    /\ tokens = << >>
    /\ pc = "call"
    /\ IdleExceptHl

HlInit == HlInitWith(HlLines, HlEntryStates)

\* Mutant: without a language the caller's state is reset.
HighlightLineCall_ResetsState ==
    /\ pc = "call"
    /\ IF language = NoLanguage
       THEN /\ tokens' = <<Token(chars, "Normal")>>
            /\ state' = DefaultHighlightState
            /\ pc' = "returned"
       ELSE /\ tokens' = << >>
            /\ state' = state
            /\ pc' = "loop"
    /\ i' = 0
    /\ UNCHANGED <<language, chars, entry>>
    /\ UNCHANGED exceptHl

\* highlight_line(line, state) is entered (syntax.rs 397-407): with no
\* language it returns the whole line as one Normal token at once.
HighlightLineCall ==
    /\ pc = "call"
    /\ IF language = NoLanguage
       THEN /\ tokens' = <<Token(chars, "Normal")>>
            /\ pc' = "returned"
       ELSE /\ tokens' = << >>
            /\ pc' = "loop"
    /\ i' = 0
    /\ UNCHANGED <<language, chars, state, entry>>
    /\ UNCHANGED exceptHl

\* One pass of the while loop (syntax.rs 409-706).
LoopIteration ==
    /\ pc = "loop"
    /\ i < Len(chars)
    /\ LET p == LoopBody(Lang, chars, i, state)
       IN  /\ i' = p.i
           /\ tokens' = tokens \o p.tokens
           /\ state' = p.state
           /\ pc' = IF p.returned THEN "returned" ELSE "loop"
    /\ UNCHANGED <<language, chars, entry>>
    /\ UNCHANGED exceptHl

\* The loop condition fails: `tokens` is returned (syntax.rs 708).
LoopExit ==
    /\ pc = "loop"
    /\ i >= Len(chars)
    /\ pc' = "returned"
    /\ UNCHANGED <<language, chars, i, tokens, state, entry>>
    /\ UNCHANGED exceptHl

HlNext ==
    \/ HighlightLineCall
    \/ LoopIteration
    \/ LoopExit

SpecHL == HlInit /\ [][HlNext]_vars

HlWideInit == HlInitWith(HlWideLines, HlWideEntryStates)

SpecHLWide == HlWideInit /\ [][HlNext]_vars

HlCommentInit == HlInitWith(HlCommentLines, HlEntryStates)

SpecHLComment == HlCommentInit /\ [][HlNext]_vars

(***************************************************************************)
(* Lines of words: up to HlWordMaxParts pieces, each a word of the kind    *)
(* the language tables list or a character that can follow a word, and the *)
(* line of the specification's Rust scenario.                              *)
(***************************************************************************)
HlWordMaxParts == 2

HlWordParts ==
    {<<"l", "e", "t">>,
     <<"S", "t", "r", "i", "n", "g">>,
     <<"t", "r", "u", "e">>,
     <<"n", "e", "w">>,
     <<"v", "o", "i", "d">>,
     <<"x">>, <<"(">>, <<"!">>, <<" ">>, <<"_">>, <<"1">>}

RECURSIVE HlPartLines(_)
HlPartLines(n) ==
    IF n = 0 THEN {<< >>}
    ELSE LET shorter == HlPartLines(n - 1)
         IN  shorter \cup {part \o rest : part \in HlWordParts, rest \in shorter}

RustScenarioLine ==
    <<"l", "e", "t", " ", "x", ":", " ", "S", "t", "r", "i", "n", "g", " ", "=">> \o
    <<" ", "S", "t", "r", "i", "n", "g", ":", ":", "n", "e", "w", "(", ")", ";">>

HlWordLines == HlPartLines(HlWordMaxParts) \cup {RustScenarioLine}

HlWordInit == HlInitWith(HlWordLines, {DefaultHighlightState})

SpecHLWord == HlWordInit /\ [][HlNext]_vars

(***************************************************************************)
(* Lines of number literals.                                               *)
(***************************************************************************)
HlNumberMaxLen == 4

HlNumberAlphabet == {"1", "e", "-", "+", "u", "."}

HlNumberLines == UNION {[1 .. n -> HlNumberAlphabet] : n \in 0 .. HlNumberMaxLen}

HlNumberInit == HlInitWith(HlNumberLines, {DefaultHighlightState})

SpecHLNumber == HlNumberInit /\ [][HlNext]_vars

(***************************************************************************)
(* The threading specification: a caller starts from the default state and *)
(* hands the state each call leaves to the next call, line after line,     *)
(* with one Highlighter.  The lines are made of the quotes, the backslash  *)
(* and the characters of the C comment markers, or are a comment marker of *)
(* some language; `entry` is the state the last call was entered with.     *)
(***************************************************************************)
ThreadMaxLen == 3

ThreadAlphabet == {"/", "*", "\"", "'", Backtick, "\\"}

\* The comment markers of every language, each as a line of its own
ThreadMarkers ==
    UNION {{LANGUAGES[id].multi_line_comment.start, LANGUAGES[id].multi_line_comment.end} :
              id \in 1 .. Len(LANGUAGES)}

ThreadLines ==
    UNION {[1 .. n -> ThreadAlphabet] : n \in 0 .. ThreadMaxLen} \cup ThreadMarkers

ThreadInit ==
    /\ language \in LanguageIds
    /\ state = DefaultHighlightState
    /\ entry = state
    /\ chars = << >>
    /\ i = 0
    /\ tokens = << >>
    /\ pc = "thread"
    /\ IdleExceptHl

\* One call of highlight_line on the next line, with the state of the caller.
ThreadLine ==
    /\ pc = "thread"
    /\ \E next_line \in ThreadLines :
           state' = highlight_line(language, next_line, state).state
    /\ entry' = state
    /\ UNCHANGED <<language, chars, i, tokens, pc>>
    /\ UNCHANGED exceptHl

ThreadNext == ThreadLine

SpecThread == ThreadInit /\ [][ThreadNext]_vars

(***************************************************************************)
(* The buffer specification: a Buffer driven through its operations with   *)
(* any arguments, in and out of range, and through the two key handlers    *)
(* of the editor that remove lines directly.                               *)
(***************************************************************************)
\* Bound on line count plus character count of a buffer.
BufMaxSize == 3

BufAlphabet == {"a", "b"}

FileAlphabet == {"a", "\n"}

Paths == {"a.rs", "b.txt"}

RECURSIVE SumLen(_)
SumLen(ls) == IF ls = << >> THEN 0 ELSE Len(Head(ls)) + SumLen(Tail(ls))

BufSize(b) == Len(b.lines) + SumLen(b.lines)

Fits(b) == BufSize(b) <= BufMaxSize

Files == UNION {[1 .. n -> FileAlphabet] : n \in 0 .. BufMaxSize}

\* What reader.lines() can yield, over all files.
FileLines == {read_lines(content, << >>) : content \in Files}

\* Arguments of the operations: every valid index, the boundary and one
\* past it.
RowArgs == 0 .. (Len(buffer.lines) + 1)

ColArgs(row) ==
    0 .. ((IF row < Len(buffer.lines) THEN Len(buffer.lines[row + 1]) ELSE 0) + 1)

BufInit ==
    /\ BufIdle
    /\ IdleExceptBuf

\* The operation of this step, as `last` records it when the run ends with
\* it.  While nothing is recorded the run goes on.
Operation(op, row, col, c, result) ==
    [op |-> op, row |-> row, col |-> col, c |-> c, before |-> buffer, ret |-> result]

Observed(operation) ==
    /\ last = NoOp
    /\ last' \in {NoOp, operation}

New ==
    /\ Observed(Operation("new", 0, 0, NoChar, "Ok"))
    /\ buffer' = BufferNew
    /\ saved' = BufferNew.lines
    /\ origin' = "new"
    /\ UNCHANGED exceptBuf

FromFile(p, read) ==
    /\ Observed(Operation("from_file", 0, 0, NoChar, "Ok"))
    /\ Fits(from_file(p, read, p \in ReadOnlyPaths))
    /\ buffer' = from_file(p, read, p \in ReadOnlyPaths)
    /\ saved' = buffer'.lines
    /\ origin' = "from_file"
    /\ UNCHANGED exceptBuf

\* File::open or a read fails (buffer.rs 81, 86): no Buffer is built.
FromFileErr ==
    /\ Observed(Operation("from_file", 0, 0, NoChar, "Err"))
    /\ UNCHANGED <<buffer, saved, origin>>
    /\ UNCHANGED exceptBuf

Save(io_ok) ==
    LET r == save(buffer, io_ok)
    IN  /\ Observed(Operation("save", 0, 0, NoChar, IF r.ok THEN "Ok" ELSE "Err"))
        /\ buffer' = r.buffer
        /\ saved' = IF r.ok THEN buffer.lines ELSE saved
        /\ origin' = IF r.ok THEN "save" ELSE origin
        /\ UNCHANGED exceptBuf

SaveAs(p, io_ok) ==
    LET r == save_as(buffer, p, io_ok)
    IN  /\ Observed(Operation("save_as", 0, 0, NoChar, IF r.ok THEN "Ok" ELSE "Err"))
        /\ buffer' = r.buffer
        /\ saved' = IF r.ok THEN buffer.lines ELSE saved
        /\ origin' = IF r.ok THEN "save" ELSE origin
        /\ UNCHANGED exceptBuf

InsertChar(row, col, c) ==
    /\ Observed(Operation("insert_char", row, col, c, "Ok"))
    /\ Fits(insert_char(buffer, row, col, c))
    /\ buffer' = insert_char(buffer, row, col, c)
    /\ UNCHANGED <<saved, origin>>
    /\ UNCHANGED exceptBuf

DeleteChar(row, col) ==
    /\ Observed(Operation("delete_char", row, col, NoChar, delete_char(buffer, row, col).result))
    /\ buffer' = delete_char(buffer, row, col).buffer
    /\ UNCHANGED <<saved, origin>>
    /\ UNCHANGED exceptBuf

InsertNewline(row, col) ==
    /\ Observed(Operation("insert_newline", row, col, NoChar, "Ok"))
    /\ Fits(insert_newline(buffer, row, col))
    /\ buffer' = insert_newline(buffer, row, col)
    /\ UNCHANGED <<saved, origin>>
    /\ UNCHANGED exceptBuf

DeleteLine(row) ==
    /\ Observed(Operation("delete_line", row, 0, NoChar, "Ok"))
    /\ buffer' = delete_line(buffer, row)
    /\ UNCHANGED <<saved, origin>>
    /\ UNCHANGED exceptBuf

InsertEmptyLine(row) ==
    /\ Observed(Operation("insert_empty_line", row, 0, NoChar, "Ok"))
    /\ Fits(insert_empty_line(buffer, row))
    /\ buffer' = insert_empty_line(buffer, row)
    /\ UNCHANGED <<saved, origin>>
    /\ UNCHANGED exceptBuf

NormalKey_d(cursor_row) ==
    /\ Observed(Operation("normal_key_d", cursor_row, 0, NoChar, "Ok"))
    /\ cursor_row < line_count(buffer)
    /\ buffer' = normal_key_d(buffer, cursor_row)
    /\ UNCHANGED <<saved, origin>>
    /\ UNCHANGED exceptBuf

InsertKey_Delete(cursor_row, cursor_col) ==
    /\ Observed(Operation("insert_key_delete", cursor_row, cursor_col, NoChar, "Ok"))
    /\ cursor_row < line_count(buffer)
    /\ cursor_col <= Len(buffer.lines[cursor_row + 1])
    /\ buffer' = insert_key_delete(buffer, cursor_row, cursor_col)
    /\ UNCHANGED <<saved, origin>>
    /\ UNCHANGED exceptBuf

BufNext ==
    \/ New
    \/ \E p \in Paths, read \in FileLines : FromFile(p, read)
    \/ FromFileErr
    \/ \E io_ok \in BOOLEAN : Save(io_ok)
    \/ \E p \in Paths, io_ok \in BOOLEAN : SaveAs(p, io_ok)
    \/ \E row \in RowArgs : \E col \in ColArgs(row), c \in BufAlphabet : InsertChar(row, col, c)
    \/ \E row \in RowArgs : \E col \in ColArgs(row) : DeleteChar(row, col)
    \/ \E row \in RowArgs : \E col \in ColArgs(row) : InsertNewline(row, col)
    \/ \E row \in RowArgs : DeleteLine(row)
    \/ \E row \in RowArgs : InsertEmptyLine(row)
    \/ \E cursor_row \in RowArgs : NormalKey_d(cursor_row)
    \/ \E cursor_row \in RowArgs : \E cursor_col \in ColArgs(cursor_row) :
           InsertKey_Delete(cursor_row, cursor_col)

SpecBuffer == BufInit /\ [][BufNext]_vars

(***************************************************************************)
(* The Line specification: a Line of up to LineMaxLen characters, then     *)
(* split_off and append, or insert and delete, or delete alone, with any   *)
(* index up to past the end.                                               *)
(***************************************************************************)
LineMaxLen == 3

LineInputs == UNION {[1 .. n -> BufAlphabet] : n \in 0 .. LineMaxLen}

IdxArgs == 0 .. LineMaxLen + 2

LineInit ==
    /\ line \in LineInputs
    /\ line0 = line
    /\ other = << >>
    /\ ret = NoChar
    /\ largs = NoArgs
    /\ lpc = "start"
    /\ IdleExceptLine

\* let rest = line.split_off(idx)
LineSplitOff(idx) ==
    /\ lpc = "start"
    /\ line' = line_split_off(line, idx).line
    /\ other' = line_split_off(line, idx).rest
    /\ largs' = [idx |-> idx, c |-> NoChar]
    /\ lpc' = "split_off"
    /\ UNCHANGED <<ret, line0>>
    /\ UNCHANGED exceptLine

\* line.append(&rest): the argument is borrowed immutably
LineAppend ==
    /\ lpc = "split_off"
    /\ line' = line_append(line, other)
    /\ lpc' = "split_off, append"
    /\ UNCHANGED <<other, ret, line0, largs>>
    /\ UNCHANGED exceptLine

\* line.insert(idx, c)
LineInsert(idx, c) ==
    /\ lpc = "start"
    /\ line' = line_insert(line, idx, c)
    /\ largs' = [idx |-> idx, c |-> c]
    /\ lpc' = "insert"
    /\ UNCHANGED <<other, ret, line0>>
    /\ UNCHANGED exceptLine

\* let ret = line.delete(idx), on the line as given or, with the same
\* index, after the insert
LineDelete(idx) ==
    /\ \/ lpc = "start" /\ lpc' = "delete" /\ largs' = [idx |-> idx, c |-> NoChar]
       \/ lpc = "insert" /\ idx = largs.idx /\ lpc' = "insert, delete" /\ largs' = largs
    /\ line' = line_delete(line, idx).line
    /\ ret' = line_delete(line, idx).result
    /\ UNCHANGED <<other, line0>>
    /\ UNCHANGED exceptLine

LineNext ==
    \/ \E idx \in IdxArgs : LineSplitOff(idx)
    \/ LineAppend
    \/ \E idx \in IdxArgs, c \in BufAlphabet : LineInsert(idx, c)
    \/ \E idx \in IdxArgs : LineDelete(idx)

SpecLine == LineInit /\ [][LineNext]_vars

(***************************************************************************)
(* The file specification: a Buffer of up to FileMaxLines lines with a     *)
(* path is saved and loaded again, or a file of up to FileMaxLen bytes is  *)
(* loaded.  The texts include both line-terminator characters.             *)
(***************************************************************************)
FileMaxLines == 2

FileMaxLineLen == 2

FileMaxLen == 3

DiskAlphabet == {"a", "\r", "\n"}

DiskTexts == UNION {[1 .. n -> DiskAlphabet] : n \in 0 .. FileMaxLineLen}

DiskLines == UNION {[1 .. n -> DiskTexts] : n \in 1 .. FileMaxLines}

DiskFiles == UNION {[1 .. n -> DiskAlphabet] : n \in 0 .. FileMaxLen}

\* Either an edited buffer in memory whose file does not exist yet, or the
\* buffer Editor::new builds and a file on disk.
FileInit ==
    /\ \/ /\ disk = NoFile
          /\ \E ls \in DiskLines, p \in Paths :
                 fbuffer = [lines |-> ls, path |-> p, modified |-> TRUE, readonly |-> FALSE]
       \/ /\ disk \in {File(bytes) : bytes \in DiskFiles}
          /\ fbuffer = BufferNew
    /\ fsource = fbuffer
    /\ fpc = "start"
    /\ IdleExceptFile

\* buffer.save() returns Ok: the file holds what save wrote.
FileSave ==
    /\ fpc = "start"
    /\ save(fbuffer, TRUE).ok
    /\ disk' = File(save_writes(fbuffer.lines, 0))
    /\ fbuffer' = save(fbuffer, TRUE).buffer
    /\ fpc' = "save"
    /\ UNCHANGED fsource
    /\ UNCHANGED exceptFile

\* buffer.save() returns Err: without a path nothing is touched; File::create
\* fails and the file is as before; or a write fails after File::create
\* truncated the file, and some prefix of the bytes has arrived.
FileSaveErr ==
    /\ fpc = "start"
    /\ \/ /\ ~save(fbuffer, TRUE).ok
          /\ disk' = disk
       \/ /\ save(fbuffer, TRUE).ok
          /\ \/ disk' = disk
             \/ \E n \in 0 .. Len(save_writes(fbuffer.lines, 0)) - 1 :
                    disk' = File(SubSeq(save_writes(fbuffer.lines, 0), 1, n))
    /\ fbuffer' = save(fbuffer, FALSE).buffer
    /\ fpc' = "save failed"
    /\ UNCHANGED fsource
    /\ UNCHANGED exceptFile

\* Buffer::from_file(&path) returns Ok, on the file of the buffer's path or
\* of a path given to the editor.
FileLoad(p) ==
    /\ fpc \in {"start", "save"}
    /\ disk.exists
    /\ fbuffer.path \in {NoPath, p}
    /\ fbuffer' = from_file(p, read_lines(disk.bytes, << >>), p \in ReadOnlyPaths)
    /\ fpc' = IF fpc = "save" THEN "save, from_file" ELSE "from_file"
    /\ UNCHANGED <<disk, fsource>>
    /\ UNCHANGED exceptFile

\* File::open fails (buffer.rs 81): no Buffer is built.
FileLoadErr ==
    /\ fpc \in {"start", "save"}
    /\ fpc' = "from_file failed"
    /\ UNCHANGED <<disk, fbuffer, fsource>>
    /\ UNCHANGED exceptFile

FileNext ==
    \/ FileSave
    \/ FileSaveErr
    \/ \E p \in Paths : FileLoad(p)
    \/ FileLoadErr

SpecFile == FileInit /\ [][FileNext]_vars

(***************************************************************************)
(* The language detection specification: detect_language on no extension,  *)
(* on every extension of the tables, and on strings that are in no table:  *)
(* other cases of table entries, parts of them and longer strings.         *)
(***************************************************************************)
TableExtensions ==
    UNION {{LANGUAGES[k].extensions[e] : e \in 1 .. Len(LANGUAGES[k].extensions)} :
               k \in 1 .. Len(LANGUAGES)}

OtherExtensions ==
    {"xyz", "", "RS", "Rs", "PY", "Py", "Js", "r", "rss", ".rs", "p", "pyx", "H", "HTML",
     "yam", "txt"}

DetectInit ==
    /\ extension \in {NoExtension} \cup TableExtensions \cup OtherExtensions
    /\ dindex = 0
    /\ detected = NoLanguage
    /\ dpc = "call"
    /\ IdleExceptDetect

\* `let ext = extension?;` : None returns None at once
DetectCall ==
    /\ dpc = "call"
    /\ dpc' = IF extension = NoExtension THEN "returned" ELSE "find"
    /\ UNCHANGED <<extension, dindex, detected>>
    /\ UNCHANGED exceptDetect

\* One element of LANGUAGES.iter() offered to find's predicate: the search
\* stops at the first element that satisfies it.
DetectFind ==
    /\ dpc = "find"
    /\ dindex < Len(LANGUAGES)
    /\ IF contains(LANGUAGES[dindex + 1].extensions, extension)
       THEN /\ detected' = dindex + 1
            /\ dpc' = "returned"
            /\ UNCHANGED dindex
       ELSE /\ dindex' = dindex + 1
            /\ UNCHANGED <<detected, dpc>>
    /\ UNCHANGED extension
    /\ UNCHANGED exceptDetect

\* The iterator is exhausted: find returns None.
DetectNone ==
    /\ dpc = "find"
    /\ dindex = Len(LANGUAGES)
    /\ detected' = NoLanguage
    /\ dpc' = "returned"
    /\ UNCHANGED <<extension, dindex>>
    /\ UNCHANGED exceptDetect

DetectNext ==
    \/ DetectCall
    \/ DetectFind
    \/ DetectNone

SpecDetect == DetectInit /\ [][DetectNext]_vars

(***************************************************************************)
(* The drawing specification: Editor::run draws a frame, handles a key     *)
(* that moves the cursor to any row, reads the terminal size and draws     *)
(* again, without end.  The buffer has up to DrawMaxLines lines taken from *)
(* texts that open, close or continue comments and strings; the content    *)
(* area has 0 to DrawMaxHeight rows.                                       *)
(***************************************************************************)
DrawMaxLines == 3

DrawMaxHeight == 2

DrawTexts == {<< >>, <<"/", "*">>, <<"*", "/">>, <<"\"">>, <<"a">>}

DrawBuffers == UNION {[1 .. n -> DrawTexts] : n \in 1 .. DrawMaxLines}

\* Rust and no language
DrawLanguages == {NoLanguage, 1}

\* Editor::update_scroll, editor.rs 895-901: the new scroll_row.  The
\* horizontal part (903-911) does not touch what is highlighted.
update_scroll(cursor_row, scroll_row, height) ==
    IF cursor_row < scroll_row THEN cursor_row
    ELSE IF cursor_row >= scroll_row + height THEN cursor_row - height + 1
    ELSE scroll_row

\* Editor::open on a file, then the first pass of the loop of Editor::run.
DrawInit ==
    /\ dhighlighter \in DrawLanguages
    /\ dlines \in DrawBuffers
    /\ dcursor_row = 0
    /\ dscroll_row = 0
    /\ content_height \in 0 .. DrawMaxHeight
    /\ highlight_state = DefaultHighlightState
    /\ drow = 0
    /\ tokenized = << >>
    /\ drawpc = "frame"
    /\ IdleExceptDraw

\* Mutant: the state is a field that lives on from frame to frame.
DrawBegin_KeepsState ==
    /\ drawpc = "frame"
    /\ dscroll_row' = update_scroll(dcursor_row, dscroll_row, content_height)
    /\ drow' = 0
    /\ tokenized' = << >>
    /\ drawpc' = "skip"
    /\ UNCHANGED <<dhighlighter, dlines, dcursor_row, content_height, highlight_state>>
    /\ UNCHANGED exceptDraw

\* draw_editor up to the first loop, editor.rs 676-683
DrawBegin ==
    /\ drawpc = "frame"
    /\ dscroll_row' = update_scroll(dcursor_row, dscroll_row, content_height)
    /\ highlight_state' = DefaultHighlightState
    /\ drow' = 0
    /\ tokenized' = << >>
    /\ drawpc' = "skip"
    /\ UNCHANGED <<dhighlighter, dlines, dcursor_row, content_height>>
    /\ UNCHANGED exceptDraw

\* One pass of `for row in 0..self.scroll_row`, editor.rs 686-691
DrawSkip ==
    /\ drawpc = "skip"
    /\ drow < dscroll_row
    /\ highlight_state' =
           IF drow < Len(dlines)
           THEN highlight_line(dhighlighter, dlines[drow + 1], highlight_state).state
           ELSE highlight_state
    /\ drow' = drow + 1
    /\ UNCHANGED <<dhighlighter, dlines, dcursor_row, dscroll_row, content_height,
                   tokenized, drawpc>>
    /\ UNCHANGED exceptDraw

\* The first loop ends and the second begins.
DrawSkipEnd ==
    /\ drawpc = "skip"
    /\ drow >= dscroll_row
    /\ drow' = 0
    /\ drawpc' = "content"
    /\ UNCHANGED <<dhighlighter, dlines, dcursor_row, dscroll_row, content_height,
                   highlight_state, tokenized>>
    /\ UNCHANGED exceptDraw

\* One pass of `for screen_row in 0..content_height`, editor.rs 694-741
DrawContent ==
    /\ drawpc = "content"
    /\ drow < content_height
    /\ LET file_row == dscroll_row + drow
       IN  IF file_row < Len(dlines)
           THEN /\ tokenized' = Append(tokenized, [row |-> file_row, state |-> highlight_state])
                /\ highlight_state' =
                       highlight_line(dhighlighter, dlines[file_row + 1], highlight_state).state
           ELSE UNCHANGED <<tokenized, highlight_state>>
    /\ drow' = drow + 1
    /\ UNCHANGED <<dhighlighter, dlines, dcursor_row, dscroll_row, content_height, drawpc>>
    /\ UNCHANGED exceptDraw

\* The second loop ends; the rest of draw_editor does not highlight.
DrawContentEnd ==
    /\ drawpc = "content"
    /\ drow >= content_height
    /\ drawpc' = "key"
    /\ UNCHANGED <<dhighlighter, dlines, dcursor_row, dscroll_row, content_height,
                   highlight_state, drow, tokenized>>
    /\ UNCHANGED exceptDraw

\* Editor::run, editor.rs 82-88: a key is handled, which leaves the cursor on
\* some row of the buffer, and the terminal size is read again.
DrawKey(row, height) ==
    /\ drawpc = "key"
    /\ dcursor_row' = row
    /\ content_height' = height
    /\ drawpc' = "frame"
    /\ UNCHANGED <<dhighlighter, dlines, dscroll_row, highlight_state, drow, tokenized>>
    /\ UNCHANGED exceptDraw

DrawNext ==
    \/ DrawBegin
    \/ DrawSkip
    \/ DrawSkipEnd
    \/ DrawContent
    \/ DrawContentEnd
    \/ \E row \in 0 .. Len(dlines) - 1, height \in 0 .. DrawMaxHeight : DrawKey(row, height)

SpecDraw == DrawInit /\ [][DrawNext]_vars

(***************************************************************************)
(* The editor specifications: Editor::run handles key after key until quit *)
(* is set or a handler returns an error.  The keys typed are limited so    *)
(* that the buffer stays within a size, the command line is typed along    *)
(* one of a set of commands and the search pattern along one of a set of   *)
(* patterns.                                                               *)
(***************************************************************************)
Prefixes(texts) == UNION {{SubSeq(t, 1, n) : n \in 0 .. Len(t)} : t \in texts}

\* The limits of one specification: the buffer size, what may stand in the
\* command line and in the search pattern while they are typed, and whether
\* the keys are recorded.
Limits(size, commands, patterns, records) ==
    [size |-> size, command_buffers |-> Prefixes(commands),
     search_buffers |-> Prefixes(patterns), records |-> records, trails |-> FALSE]

\* The same limits, and the Editor before every key is recorded too.
Trailing(lim) == [lim EXCEPT !.records = TRUE, !.trails = TRUE]

\* The line one Tab types into an empty buffer.
TabbedLines == << <<" ", " ", " ", " ">> >>

\* The buffer is within the size, or a Tab was typed into an empty buffer.
Within(ed, lim) ==
    /\ ed.command_buffer \in lim.command_buffers
    /\ ed.search_buffer \in lim.search_buffers
    /\ BufSize(ed.buffer) <= lim.size \/ ed.buffer.lines = TabbedLines

\* The files that are opened: an empty one, one line, two lines.
EdFiles ==
    {read_lines(content, << >>) :
         content \in {<< >>, <<"a", " ", "\n">>, <<"a", "\n", "\n">>}}

\* The file system is asked nothing.
NoIo == Io(TRUE, FALSE, << >>)

\* An operation on the file system fails.
IoFails == Io(FALSE, FALSE, << >>)

\* A path is a file that reads as one of EdFiles, or is a directory, or the
\* operation fails.
EdIos == {Io(TRUE, FALSE, read) : read \in EdFiles} \cup {Io(TRUE, TRUE, << >>), IoFails}

\* The answers that matter to a key: success or failure for a key whose
\* handler writes the file or lists a directory, those of EdIos for a key
\* that can open a path, nothing for the other keys.
IosFor(key, io_keys, open_keys) ==
    IF key \in open_keys THEN EdIos
    ELSE IF key \in io_keys THEN {NoIo, IoFails}
    ELSE {NoIo}

\* One pass of the loop of Editor::run, editor.rs 81-92: a key is read and
\* handled; an error leaves the loop with Err, quit leaves it with Ok, and
\* a panic ends the program where it is.
Handle(key, io, lim) ==
    /\ exit = "running"
    /\ IF handle_key_panics(editor, key)
       THEN /\ editor' = editor
            /\ exit' = "panic"
       ELSE \E r \in {handle_key(editor, key, io)} :
                /\ Within(r.editor, lim)
                /\ editor' = r.editor
                /\ exit' = IF ~r.ok THEN "Err" ELSE IF r.editor.quit THEN "Ok" ELSE "running"
    /\ handled' = IF lim.records THEN Handled(key, editor.mode) ELSE NoHandled
    /\ previous' = IF lim.trails THEN Before(editor, handled) ELSE NoBefore
    /\ UNCHANGED exceptEd

\* The keys of each handler that make it touch the file system.
NormalIoKeys == {Char("e"), Ctrl("s")}

InsertIoKeys == {Ctrl("s")}

CommandIoKeys == {Key("Enter")}

BrowserIoKeys == {Key("Left"), Char("h"), Key("Backspace"), Char("."), Char("r")}

BrowserOpenKeys == {Key("Enter"), Key("Right"), Char("l")}

\* Editor::handle_key in each mode, on any of `keys`.
HandleNormalKey(keys, lim) ==
    /\ editor.mode = "Normal"
    /\ \E key \in keys : \E io \in IosFor(key, NormalIoKeys, {}) : Handle(key, io, lim)

HandleInsertKey(keys, lim) ==
    /\ editor.mode = "Insert"
    /\ \E key \in keys : \E io \in IosFor(key, InsertIoKeys, {}) : Handle(key, io, lim)

HandleCommandKey(keys, lim) ==
    /\ editor.mode = "Command"
    /\ \E key \in keys : \E io \in IosFor(key, {}, CommandIoKeys) : Handle(key, io, lim)

HandleSearchKey(keys, lim) ==
    /\ editor.mode = "Search"
    /\ \E key \in keys : Handle(key, NoIo, lim)

HandleBrowserKey(keys, lim) ==
    /\ editor.mode = "Browser"
    /\ \E key \in keys : \E io \in IosFor(key, BrowserIoKeys, BrowserOpenKeys) : Handle(key, io, lim)

(***************************************************************************)
(* Every key in every mode, on buffers of letters and spaces within        *)
(* EdMaxSize, with the command that moves the cursor.                      *)
(***************************************************************************)
EdMaxSize == 3

EdAlphabet == {"a", " "}

\* The command typed is :2, the pattern searched for is a.
EdLimits == Limits(EdMaxSize, {<<"2">>}, {<<"a">>}, FALSE)

NormalKeys ==
    {Char(c) : c \in {"h", "j", "k", "l", "0", "$", "g", "G", "w", "b", "i", "I", "a", "A",
                      "o", "O", ":", "/", "?", "n", "N", "x", "d", "e", "z"}}
        \cup {Key(k) : k \in {"Left", "Down", "Up", "Right", "Home", "End", "PageUp",
                              "PageDown", "Enter"}}
        \cup {Ctrl(c) : c \in {"u", "d", "q", "s"}}

InsertKeys ==
    {Char(c) : c \in EdAlphabet}
        \cup {Key(k) : k \in {"Escape", "Enter", "Backspace", "Delete", "Tab", "Left",
                              "Right", "Up", "Down", "Home", "End", "PageUp"}}
        \cup {Ctrl("s")}

CommandKeys ==
    {Char(c) : c \in {"2", "q"}} \cup {Key(k) : k \in {"Escape", "Enter", "Backspace", "Tab"}}

SearchKeys ==
    {Char("a")} \cup {Key(k) : k \in {"Escape", "Enter", "Backspace", "Tab"}}

BrowserKeys ==
    {Char(c) : c \in {"q", "k", "j", "g", "G", "h", "l", ".", "r", "z"}}
        \cup {Key(k) : k \in {"Escape", "Up", "Down", "PageUp", "PageDown", "Home", "End",
                              "Left", "Backspace", "Enter", "Right"}}

\* main: Editor::new, and Editor::open when a path is given (main.rs)
EdInit ==
    /\ \/ editor = EditorNew
       \/ \E io \in EdIos : io.io_ok /\ editor = open(EditorNew, EnteredPath, io).editor
    /\ Within(editor, EdLimits)
    /\ exit = "running"
    /\ handled = NoHandled
    /\ previous = NoBefore
    /\ IdleExceptEd

EdNext ==
    \/ HandleNormalKey(NormalKeys, EdLimits)
    \/ HandleInsertKey(InsertKeys, EdLimits)
    \/ HandleCommandKey(CommandKeys, EdLimits)
    \/ HandleSearchKey(SearchKeys, EdLimits)
    \/ HandleBrowserKey(BrowserKeys, EdLimits)

SpecEditor == EdInit /\ [][EdNext]_vars

(***************************************************************************)
(* The command specification: a buffer of up to CmdMaxSize is edited,      *)
(* saved and left through the command line and Ctrl+q, and every key is    *)
(* recorded.                                                               *)
(***************************************************************************)
CmdMaxSize == 2

CmdCommands ==
    {<<"q">>, <<"q", "!">>, <<"q", "u", "i", "t">>, <<"q", "u", "i", "t", "!">>,
     <<"w">>, <<"w", "q">>, <<"w", " ", "b">>, <<"e", " ", "b">>}

CmdLimits == Limits(CmdMaxSize, CmdCommands, {<< >>}, TRUE)

CmdNormalKeys == {Char("i"), Char("x"), Char(":"), Ctrl("q"), Ctrl("s")}

CmdInsertKeys == {Char("a"), Key("Escape")}

CmdCommandKeys ==
    {Char(c) : c \in {"q", "u", "i", "t", "!", "w", " ", "b", "e"}}
        \cup {Key(k) : k \in {"Escape", "Enter", "Backspace"}}

CmdInit ==
    /\ \/ editor = EditorNew
       \/ \E io \in EdIos : io.io_ok /\ editor = open(EditorNew, EnteredPath, io).editor
    /\ Within(editor, CmdLimits)
    /\ exit = "running"
    /\ handled = NoHandled
    /\ previous = NoBefore
    /\ IdleExceptEd

CmdNext ==
    \/ HandleNormalKey(CmdNormalKeys, CmdLimits)
    \/ HandleInsertKey(CmdInsertKeys, CmdLimits)
    \/ HandleCommandKey(CmdCommandKeys, CmdLimits)

SpecCommand == CmdInit /\ [][CmdNext]_vars

(***************************************************************************)
(* The motion specification: a file of up to MotionMaxSize bytes is        *)
(* opened, the cursor is moved, text is appended and the pattern "a" is    *)
(* searched in both directions, and every key is recorded.                 *)
(***************************************************************************)
MotionMaxSize == 4

MotionContents == UNION {[1 .. n -> {"a", " ", "\n"}] : n \in 0 .. MotionMaxSize}

MotionFiles == {read_lines(content, << >>) : content \in MotionContents}

MotionLimits == Limits(MotionMaxSize, {<< >>}, {<<"a">>}, TRUE)

MotionNormalKeys ==
    {Char(c) : c \in {"h", "j", "k", "l", "0", "$", "a", "A", "/", "?", "n", "N"}}

MotionInsertKeys == {Char("a"), Key("Escape")}

MotionSearchKeys == {Char("a")} \cup {Key(k) : k \in {"Escape", "Enter", "Backspace"}}

MotionInit ==
    /\ \E read \in MotionFiles :
           editor = open(EditorNew, EnteredPath, Io(TRUE, FALSE, read)).editor
    /\ Within(editor, MotionLimits)
    /\ exit = "running"
    /\ handled = NoHandled
    /\ previous = NoBefore
    /\ IdleExceptEd

MotionNext ==
    \/ HandleNormalKey(MotionNormalKeys, MotionLimits)
    \/ HandleInsertKey(MotionInsertKeys, MotionLimits)
    \/ HandleSearchKey(MotionSearchKeys, MotionLimits)

SpecMotion == MotionInit /\ [][MotionNext]_vars

(***************************************************************************)
(* The browser specification: a Browser is built on a directory up to      *)
(* BrMaxDepth below the root and then called in any order, while the file  *)
(* system lists up to BrMaxRead of the names below in any order at every   *)
(* listing, or fails after some of them.                                   *)
(***************************************************************************)
BrMaxRead == 2

BrMaxDepth == 2

BrMaxPage == 2

BrNames == {<<".", "h">>, <<"a">>, <<"D">>}

BrDirectories == {<<"D">>}

BrReads ==
    {names \in UNION {[1 .. n -> BrNames] : n \in 0 .. BrMaxRead} :
        \A j, k \in 1 .. Len(names) : j # k => names[j] # names[k]}

BrIos == {Listed(io_ok, names, BrDirectories) : io_ok \in BOOLEAN, names \in BrReads}

BrInit ==
    /\ \E dir \in {Root, <<<<"D">>>>} : \E io \in BrIos :
           /\ io.io_ok
           /\ browser = new_browser(dir, io).browser
    /\ brstatus = "running"
    /\ brlast = Call("new", TRUE)
    /\ IdleExceptBr

\* One call returns.
BrReturn(op, r) ==
    /\ Len(r.browser.current_dir) <= BrMaxDepth
    /\ browser' = r.browser
    /\ brlast' = Call(op, r.ok)
    /\ UNCHANGED <<brstatus, exceptBr>>

BrMoveUp == brstatus = "running" /\ BrReturn("move_up", BrowserResult(move_up(browser), TRUE, << >>))

BrMoveDown ==
    brstatus = "running" /\ BrReturn("move_down", BrowserResult(move_down(browser), TRUE, << >>))

BrPageUp ==
    /\ brstatus = "running"
    /\ \E page_size \in 0 .. BrMaxPage :
           BrReturn("page_up", BrowserResult(browser_page_up(browser, page_size), TRUE, << >>))

BrPageDown ==
    /\ brstatus = "running"
    /\ \E page_size \in 0 .. BrMaxPage :
           BrReturn("page_down", BrowserResult(browser_page_down(browser, page_size), TRUE, << >>))

BrGoToFirst ==
    brstatus = "running" /\ BrReturn("go_to_first", BrowserResult(go_to_first(browser), TRUE, << >>))

BrGoToLast ==
    brstatus = "running" /\ BrReturn("go_to_last", BrowserResult(go_to_last(browser), TRUE, << >>))

BrRefresh ==
    /\ brstatus = "running"
    /\ \E io \in BrIos : BrReturn("refresh", refresh(browser, io))

BrToggleHidden ==
    /\ brstatus = "running"
    /\ \E io \in BrIos : BrReturn("toggle_hidden", toggle_hidden(browser, io))

\* enter; self.entries[self.selected] panics when the index is outside a
\* listing that is not empty (browser.rs 183).
BrEnter ==
    /\ brstatus = "running"
    /\ IF browser.entries # << >> /\ browser.selected >= Len(browser.entries)
       THEN /\ brstatus' = "panic"
            /\ brlast' = Call("enter", FALSE)
            /\ UNCHANGED <<browser, exceptBr>>
       ELSE \E io \in BrIos : BrReturn("enter", enter(browser, io))

BrGoUp ==
    /\ brstatus = "running"
    /\ \E io \in BrIos : BrReturn("go_up", go_up(browser, io))

BrNext ==
    \/ BrMoveUp
    \/ BrMoveDown
    \/ BrPageUp
    \/ BrPageDown
    \/ BrGoToFirst
    \/ BrGoToLast
    \/ BrRefresh
    \/ BrToggleHidden
    \/ BrEnter
    \/ BrGoUp

SpecBrowser == BrInit /\ [][BrNext]_vars

(***************************************************************************)
(* Properties of highlight_line.  They describe the text declaratively     *)
(* (where a marker occurs, which delimiter is unescaped) and compare that  *)
(* with what the scanner did.                                              *)
(***************************************************************************)
Returned == pc = "returned"

HasLanguage == language # NoLanguage

\* pattern occurs in chars at 0-based position p
OccursAt(text, p, pattern) ==
    /\ p + Len(pattern) <= Len(text)
    /\ \A k \in 1 .. Len(pattern) : text[p + k] = pattern[k]

Occurrences(text, pattern, from) ==
    {p \in from .. Len(text) : OccursAt(text, p, pattern)}

Min(S) == CHOOSE x \in S : \A y \in S : x <= y

RECURSIVE ConcatTexts(_)
ConcatTexts(toks) ==
    IF toks = << >> THEN << >> ELSE Head(toks).text \o ConcatTexts(Tail(toks))

EnteredInComment == Returned /\ HasLanguage /\ entry.in_multiline_comment

\* C1: entered inside a multi-line comment, with the end marker anywhere on
\* the line (first at p): one Comment token up to and including the marker,
\* then the rest of the line tokenized from p + end_len with the comment
\* flag cleared.
C1_CommentEndFoundAnywhere ==
    (/\ EnteredInComment
     /\ Lang.multi_line_comment # NoMultiLine
     /\ Occurrences(chars, Lang.multi_line_comment.end, 0) # {})
    => LET end_chars == Lang.multi_line_comment.end
           stop == Min(Occurrences(chars, end_chars, 0)) + Len(end_chars)
           rest == scan_from(Lang, chars, stop,
                             [entry EXCEPT !.in_multiline_comment = FALSE])
       IN  /\ tokens = <<Token(Slice(chars, 0, stop), "Comment")>> \o rest.tokens
           /\ state = rest.state

\* C10: entered inside a multi-line comment on a non-empty line without the
\* end marker: exactly one Comment token, the whole line, and the state is
\* still inside the comment.
C10_CommentContinues ==
    (/\ EnteredInComment
     /\ chars # << >>
     /\ \/ Lang.multi_line_comment = NoMultiLine
        \/ Occurrences(chars, Lang.multi_line_comment.end, 0) = {})
    => /\ tokens = <<Token(chars, "Comment")>>
       /\ state.in_multiline_comment

C10_Witness ==
    /\ EnteredInComment
    /\ Lang.multi_line_comment # NoMultiLine
    /\ Len(chars) >= 3
    /\ Occurrences(chars, Lang.multi_line_comment.end, 0) = {}
    /\ Occurrences(chars, Lang.multi_line_comment.start, 0) # {}
    /\ tokens = <<Token(chars, "Comment")>>
    /\ state.in_multiline_comment

\* The scanner stands, outside any comment and string, at a multi-line
\* comment start marker.
MultiLineStartMet ==
    /\ pc = "loop"
    /\ i < Len(chars)
    /\ ~state.in_multiline_comment
    /\ state.in_string = NoChar
    /\ ~(Lang.single_line_comment # NoMarker
         /\ OccursAt(chars, i, Lang.single_line_comment))
    /\ Lang.multi_line_comment # NoMultiLine
    /\ OccursAt(chars, i, Lang.multi_line_comment.start)

\* C9: a multi-line comment start met outside strings and comments pushes
\* exactly one Comment token: up to and including the first end marker
\* that begins after the start marker (flag left false), or else to the end
\* of the line (flag left true).
C9_MultiLineCommentStart ==
    [][MultiLineStartMet =>
          LET m == Lang.multi_line_comment
              ends == Occurrences(chars, m.end, i + Len(m.start))
              stop == IF ends # {} THEN Min(ends) + Len(m.end) ELSE Len(chars)
          IN  /\ tokens' = Append(tokens, Token(Slice(chars, i, stop), "Comment"))
              /\ i' = stop
              /\ state'.in_multiline_comment = (ends = {})
              /\ state'.in_string = NoChar]_vars

\* A comment opened at column 0 and closed by the first of two end markers.
C9_Witness ==
    /\ Returned /\ HasLanguage
    /\ entry = DefaultHighlightState
    /\ Lang.multi_line_comment # NoMultiLine
    /\ OccursAt(chars, 0, Lang.multi_line_comment.start)
    /\ LET m == Lang.multi_line_comment
           ends == Occurrences(chars, m.end, Len(m.start))
       IN  /\ Cardinality(ends) >= 2
           /\ tokens[1] = Token(Slice(chars, 0, Min(ends) + Len(m.end)), "Comment")
           /\ Len(tokens) > 1
           /\ ~state.in_multiline_comment

\* The number of consecutive backslashes that end just before position q,
\* counted no further left than `from`.
BackslashesBefore(text, from, q) ==
    Cardinality({k \in from .. q - 1 : \A m \in k .. q - 1 : text[m + 1] = "\\"})

\* Positions from `from` on that hold the delimiter d behind an even number
\* of backslashes: up to and including the first of them, these are the
\* delimiters no backslash escapes.
UnescapedAt(text, from, d) ==
    {q \in from .. Len(text) - 1 :
        text[q + 1] = d /\ BackslashesBefore(text, from, q) % 2 = 0}

\* The scanner stands, outside any comment and string, at a string delimiter.
StringDelimiterMet ==
    /\ pc = "loop"
    /\ i < Len(chars)
    /\ ~state.in_multiline_comment
    /\ state.in_string = NoChar
    /\ ~(Lang.single_line_comment # NoMarker
         /\ OccursAt(chars, i, Lang.single_line_comment))
    /\ ~(Lang.multi_line_comment # NoMultiLine
         /\ OccursAt(chars, i, Lang.multi_line_comment.start))
    /\ chars[i + 1] \in Lang.string_delimiters

\* C4: a string delimiter d met outside comments and strings with no
\* unescaped d after it on the line: one String token for the rest of the
\* line, in_string = Some(d), return; in_string stays None only when a
\* closing delimiter was found.
C4_UnterminatedStringSetsState ==
    [][StringDelimiterMet =>
          LET d == chars[i + 1]
          IN  IF UnescapedAt(chars, i + 1, d) = {}
              THEN /\ tokens' = Append(tokens, Token(Slice(chars, i, Len(chars)), "String"))
                   /\ state'.in_string = d
                   /\ pc' = "returned"
              ELSE state'.in_string = NoChar]_vars

EnteredInString ==
    /\ Returned /\ HasLanguage
    /\ ~entry.in_multiline_comment
    /\ entry.in_string # NoChar

\* C8: entered inside a string with delimiter d.  With an unescaped d on the
\* line (first at q): one String token up to and including it, then the
\* rest of the line tokenized from q + 1 with in_string cleared.  Without
\* one: the whole line, if it has any text, as one String token, and the
\* state unchanged.
C8_StringContinuation ==
    EnteredInString =>
        LET closing == UnescapedAt(chars, 0, entry.in_string)
        IN  IF closing # {}
            THEN LET stop == Min(closing) + 1
                     rest == scan_from(Lang, chars, stop,
                                       [entry EXCEPT !.in_string = NoChar])
                 IN  /\ tokens = <<Token(Slice(chars, 0, stop), "String")>> \o rest.tokens
                     /\ state = rest.state
            ELSE /\ tokens = IF chars = << >> THEN << >> ELSE <<Token(chars, "String")>>
                 /\ state = entry

\* An escaped delimiter is passed over, the next one closes the string and
\* one more token follows.
C8_Witness ==
    /\ EnteredInString
    /\ Len(chars) = 4
    /\ chars[1] = "\\" /\ chars[2] = entry.in_string /\ chars[3] = entry.in_string
    /\ tokens[1] = Token(Slice(chars, 0, 3), "String")
    /\ Len(tokens) = 2
    /\ state.in_string = NoChar

\* C2: token coverage.  For every language and for no language, every line
\* and every entry state, the texts of the returned tokens, concatenated in
\* order, are the line.
C2_TokenCoverage ==
    Returned => ConcatTexts(tokens) = chars

\* A line that leaves a string open after an earlier token.
C2_Witness ==
    /\ Returned /\ HasLanguage
    /\ ~entry.in_multiline_comment /\ entry.in_string = NoChar
    /\ state.in_string # NoChar
    /\ Len(tokens) >= 2
    /\ tokens[Len(tokens)].token_type = "String"
    /\ ConcatTexts(tokens) = chars

\* C5: every pass of the scanning loop returns or strictly increases i, and
\* i never passes the end of the line, so the loop ends after at most
\* Len(chars) passes.
C5_LoopProgress ==
    [][(pc = "loop" /\ i < Len(chars)) =>
          /\ pc' = "returned" \/ i' > i
          /\ i' <= Len(chars)]_vars

\* A call that returned after the single-unhandled-character fallback
\* (syntax.rs 698-705) emitted the middle character of three.
C5_Witness ==
    /\ Returned /\ HasLanguage
    /\ Len(chars) = 3 /\ i = 3
    /\ Len(tokens) = 3
    /\ tokens[2] = Token(<<"#">>, "Normal")

\* C6: no returned token has empty text, for every language and for no
\* language, every line, the empty one included, and every entry state.
C6_NoEmptyToken ==
    Returned => \A k \in 1 .. Len(tokens) : tokens[k].text # << >>

(***************************************************************************)
(* Properties of the buffer.  `saved` is the text at the most recent        *)
(* Buffer::new, Buffer::from_file or successful save.                      *)
(***************************************************************************)
\* C3: a buffer never has zero lines, after Buffer::new, from_file of any
\* file, the empty one included, and any sequence of the editing operations
\* and of the editor's direct line removals.
C3_NeverZeroLines ==
    line_count(buffer) >= 1

\* A file of two lines or more was loaded and lines were removed until one
\* empty line was left.
C3_Witness ==
    /\ origin = "from_file"
    /\ Len(saved) >= 2
    /\ buffer.modified
    /\ buffer.lines = <<LineNew>>

\* The step builds a new Buffer: Buffer::new, or Buffer::from_file of the
\* file whose path and lines the buffer then has.
BufferReplaced ==
    \/ New
    \/ buffer'.path \in Paths /\ FromFile(buffer'.path, buffer'.lines)

\* The step is a save or save_as that returned Ok.
SaveSucceeded ==
    \/ buffer.path # NoPath /\ Save(TRUE)
    \/ \E p \in Paths : SaveAs(p, TRUE)

\* C7: the modified flag tracks unsaved changes.  While modified is false
\* the lines are those of the most recent new, from_file or successful
\* save; every step that changes the lines of the buffer sets modified,
\* unless it replaces the buffer by a new one; and modified goes from true
\* to false only by a successful save (or by such a replacement).
C7_ModifiedTracksChanges ==
    [][/\ ~buffer.modified => buffer.lines = saved
       /\ ~buffer'.modified => buffer'.lines = saved'
       /\ (buffer'.lines # buffer.lines /\ ~buffer'.modified) => BufferReplaced
       /\ (buffer.modified /\ ~buffer'.modified) => (SaveSucceeded \/ BufferReplaced)]_vars

\* A buffer whose text was typed (no file holds a "b") and then saved.
C7_Witness ==
    /\ origin = "save"
    /\ ~buffer.modified
    /\ buffer.path = "a.rs"
    /\ buffer.lines = << <<"b">>, LineNew >>
    /\ saved = buffer.lines

(***************************************************************************)
(* Properties of words and numbers.                                        *)
(***************************************************************************)
WordChar(c) == c \in AsciiLower \cup AsciiUpper \cup AsciiDigits \cup {"_"}

\* The scanner stands, outside any comment and string, at a letter or an
\* underscore that starts no marker, delimiter or number.
IdentifierMet ==
    /\ pc = "loop"
    /\ i < Len(chars)
    /\ ~state.in_multiline_comment
    /\ state.in_string = NoChar
    /\ chars[i + 1] \in AsciiLower \cup AsciiUpper \cup {"_"}
    /\ ~(Lang.single_line_comment # NoMarker
         /\ OccursAt(chars, i, Lang.single_line_comment))
    /\ ~(Lang.multi_line_comment # NoMultiLine
         /\ OccursAt(chars, i, Lang.multi_line_comment.start))
    /\ chars[i + 1] \notin Lang.string_delimiters
    /\ chars[i + 1] # Lang.char_delimiter

ClassPriority == <<"Keyword", "Type", "Constant", "Function", "Macro", "Normal">>

\* The class applies to the word `text` that ends at 0-based position e.
ClassApplies(class, text, e) ==
    CASE class = "Keyword" -> text \in Lang.keywords
      [] class = "Type" -> text \in Lang.types
      [] class = "Constant" -> text \in Lang.constants
      [] class = "Function" -> e < Len(chars) /\ chars[e + 1] = "("
      [] class = "Macro" -> e < Len(chars) /\ chars[e + 1] = "!"
      [] class = "Normal" -> TRUE

\* C11: an identifier is the maximal run of alphanumeric/underscore
\* characters from where the scanner stands; it becomes one token, of the
\* first class that applies in the order Keyword, Type, Constant, Function
\* (next character "("), Macro (next character "!"), Normal.
C11_IdentifierPriority ==
    [][IdentifierMet =>
          LET e == Min({j \in i .. Len(chars) :
                           j = Len(chars) \/ ~WordChar(chars[j + 1])})
              text == Slice(chars, i, e)
              k == Min({n \in 1 .. Len(ClassPriority) :
                           ClassApplies(ClassPriority[n], text, e)})
          IN  /\ tokens' = Append(tokens, Token(text, ClassPriority[k]))
              /\ i' = e
              /\ state' = state
              /\ pc' = "loop"]_vars

\* The Rust scenario: Keyword `let`, two Type tokens `String`, Function `new`.
C11_Witness ==
    /\ Returned /\ HasLanguage
    /\ Lang.name = "Rust"
    /\ chars = RustScenarioLine
    /\ tokens[1] = Token(<<"l", "e", "t">>, "Keyword")
    /\ tokens[6] = Token(<<"S", "t", "r", "i", "n", "g">>, "Type")
    /\ tokens[10] = tokens[6]
    /\ tokens[12] = Token(<<"n", "e", "w">>, "Function")
    /\ Cardinality({n \in 1 .. Len(tokens) : tokens[n].token_type = "Type"}) = 2

\* The line is digits, the letter, digits, with `sign` (possibly empty)
\* right after the letter.
DigitsLetterDigits(text, letter, signs) ==
    \E p \in 2 .. Len(text) :
        /\ text[p] = letter
        /\ \A q \in 1 .. p - 1 : text[q] \in AsciiDigits
        /\ \E from \in p + 1 .. Len(text) :
              /\ from = p + 1 \/ (from = p + 2 /\ text[p + 1] \in signs)
              /\ from = p + 1 => signs = {}
              /\ \A q \in from .. Len(text) : text[q] \in AsciiDigits

EnteredAtDefault == Returned /\ HasLanguage /\ entry = DefaultHighlightState

\* C12: a number with an exponent marker followed by a sign, such as 1e-5,
\* is one Number token; the sign is not an Operator token of its own.
C12_ExponentSignInNumber ==
    (EnteredAtDefault /\ DigitsLetterDigits(chars, "e", {"+", "-"}))
        => tokens = <<Token(chars, "Number")>>

\* C13: a number with a type suffix that contains digits, such as 42u32, is
\* one Number token.
C13_SuffixWithDigits ==
    (EnteredAtDefault /\ DigitsLetterDigits(chars, "u", {}))
        => tokens = <<Token(chars, "Number")>>

\* C14: with no language highlight_line returns exactly one Normal token
\* whose text is the whole line and leaves the HighlightState as it was on
\* entry, whatever the line and the state.
C14_NoLanguageOneToken ==
    (Returned /\ ~HasLanguage) =>
        /\ tokens = <<Token(chars, "Normal")>>
        /\ state = entry

\* No language, a line that would open a comment in most languages, and an
\* entry state with both flags set.
C14_Witness ==
    /\ Returned /\ ~HasLanguage
    /\ chars = <<"/", "*", "\"">>
    /\ entry.in_multiline_comment /\ entry.in_string = "\""
    /\ Len(tokens) = 1
    /\ state = entry

(***************************************************************************)
(* Properties of Line.                                                     *)
(***************************************************************************)
\* The first n characters of text, all of it when n is past the end, and
\* what is left after them.
Prefix(text, n) == [k \in 1 .. (IF n <= Len(text) THEN n ELSE Len(text)) |-> text[k]]

Suffix(text, n) ==
    [k \in 1 .. (IF n <= Len(text) THEN Len(text) - n ELSE 0) |-> text[n + k]]

\* C15: split_off(idx) leaves the first idx characters in the receiver and
\* returns the rest, for idx up to and past the length; appending the
\* returned line to the receiver gives the original line, and append leaves
\* its argument as it was.
C15_SplitAppendInverse ==
    /\ lpc \in {"split_off", "split_off, append"} => other = Suffix(line0, largs.idx)
    /\ lpc = "split_off" => line = Prefix(line0, largs.idx)
    /\ lpc = "split_off, append" => line = line0

\* A line of three characters split after the first and put together again.
C15_Witness ==
    /\ lpc = "split_off, append"
    /\ Len(line0) = 3
    /\ largs.idx = 1
    /\ Len(other) = 2
    /\ line = line0

\* C16: insert past the end, delete at or past the end and split_off at or
\* past the end leave the line unchanged (delete returns None, split_off an
\* empty line); an insert at an index of the line followed by delete at the
\* same index returns the inserted character and restores the line.
C16_LineBoundarySafety ==
    /\ (lpc = "insert" /\ largs.idx > Len(line0)) => line = line0
    /\ (lpc = "delete" /\ largs.idx >= Len(line0)) => (ret = NoChar /\ line = line0)
    /\ (lpc = "split_off" /\ largs.idx >= Len(line0)) => (other = << >> /\ line = line0)
    /\ lpc = "insert, delete" =>
          /\ line = line0
          /\ ret = IF largs.idx <= Len(line0) THEN largs.c ELSE NoChar

\* insert and then delete, both past the end of a line of two characters.
C16_Witness ==
    /\ lpc = "insert, delete"
    /\ Len(line0) = 2
    /\ largs.idx = 3
    /\ ret = NoChar
    /\ line = line0

(***************************************************************************)
(* Properties of single Buffer operations: `last` holds the operation that *)
(* ended the run, `last.before` the buffer it was applied to.              *)
(***************************************************************************)
Ended(op) == last.op = op

\* C17: delete_line(0), and delete_line(row) for row >= line_count, change
\* nothing: not the lines, not their number, not the modified flag.
C17_DeleteLineNoOp ==
    (Ended("delete_line")
        /\ (last.row = 0 \/ last.row >= Len(last.before.lines)))
        => buffer = last.before

\* delete_line(0) on an unmodified buffer of two lines or more.
C17_Witness ==
    /\ Ended("delete_line")
    /\ last.row = 0
    /\ Len(last.before.lines) >= 2
    /\ ~last.before.modified
    /\ buffer = last.before

C19_DeleteChar ==
    Ended("delete_char") =>
        LET old == last.before
        IN  IF last.row < Len(old.lines) /\ last.col < Len(old.lines[last.row + 1])
            THEN /\ last.ret = old.lines[last.row + 1][last.col + 1]
                 /\ buffer.lines =
                        [old.lines EXCEPT ![last.row + 1] =
                            Prefix(@, last.col) \o Suffix(@, last.col + 1)]
                 /\ buffer.modified
            ELSE /\ last.ret = NoChar
                 /\ buffer = old

\* delete_char just past the end of a line with text, nothing modified.
C19_Witness ==
    /\ Ended("delete_char")
    /\ last.row = 0
    /\ last.before.lines[1] # << >>
    /\ last.col = Len(last.before.lines[1])
    /\ ~last.before.modified
    /\ last.ret = NoChar
    /\ ~buffer.modified

\* C20: save without a path returns an error and leaves lines and modified
\* as they were; a save that succeeds clears modified and changes neither
\* the lines nor the path.
C20_Save ==
    Ended("save") =>
        /\ last.before.path = NoPath => (last.ret = "Err" /\ buffer = last.before)
        /\ last.ret = "Ok" => buffer = [last.before EXCEPT !.modified = FALSE]

\* save on a modified buffer that has no path.
C20_Witness ==
    /\ Ended("save")
    /\ last.before.path = NoPath
    /\ last.before.modified
    /\ last.ret = "Err"
    /\ buffer.modified

(***************************************************************************)
(* Properties of saving and loading.                                       *)
(***************************************************************************)
NoTerminator(text) == \A k \in 1 .. Len(text) : text[k] \notin {"\n", "\r"}

\* C21: a buffer whose lines hold no line-terminator character, saved and
\* loaded again, has the same number of lines and the same line texts; and
\* a loaded empty file is exactly one empty line.
C21_SaveLoadRoundTrip ==
    /\ (/\ fpc = "save, from_file"
        /\ \A r \in 1 .. Len(fsource.lines) : NoTerminator(fsource.lines[r]))
       => (/\ Len(fbuffer.lines) = Len(fsource.lines)
           /\ \A r \in 1 .. Len(fsource.lines) : fbuffer.lines[r] = fsource.lines[r])
    /\ (fpc = "from_file" /\ disk = File(<< >>)) => fbuffer.lines = << << >> >>

C21_Witness ==
    /\ fpc = "save, from_file"
    /\ fsource.lines = << <<"a">>, << >> >>
    /\ fbuffer.lines = fsource.lines
    /\ disk = File(<<"a", "\n", "\n">>)

(***************************************************************************)
(* Properties of detect_language.                                          *)
(***************************************************************************)
\* The languages, by their place in the table, that list the extension.
Listing(ext) ==
    {k \in 1 .. Len(LANGUAGES) :
        ext \in {LANGUAGES[k].extensions[e] : e \in 1 .. Len(LANGUAGES[k].extensions)}}

NameDetected == IF detected = NoLanguage THEN "None" ELSE LANGUAGES[detected].name

\* C22: detect_language returns the first language of the table that lists
\* the extension exactly as given, and None for no extension or an extension
\* no language lists; py is Python, rs is Rust, xyz and no extension are None.
C22_DetectLanguage ==
    dpc = "returned" =>
        /\ detected = IF extension = NoExtension \/ Listing(extension) = {}
                       THEN NoLanguage
                       ELSE Min(Listing(extension))
        /\ extension = "py" => NameDetected = "Python"
        /\ extension = "rs" => NameDetected = "Rust"
        /\ extension \in {"xyz", NoExtension, "RS", "Py"} => NameDetected = "None"

C22_Witness ==
    /\ dpc = "returned"
    /\ extension = "pyw"
    /\ NameDetected = "Python"

(***************************************************************************)
(* Properties of drawing.                                                  *)
(***************************************************************************)
\* The state after highlighting rows 0 .. r-1 in that order from the
\* default state.
RECURSIVE Threaded(_)
Threaded(r) ==
    IF r = 0
    THEN DefaultHighlightState
    ELSE highlight_line(dhighlighter, dlines[r], Threaded(r - 1)).state

\* C23: in every frame the visible rows are highlighted top to bottom from
\* the scroll offset, and each with the state that highlighting all rows
\* above it from the default state leaves, whatever the frames before did.
C23_StateThreading ==
    \A k \in 1 .. Len(tokenized) :
        /\ tokenized[k].row = dscroll_row + k - 1
        /\ tokenized[k].state = Threaded(tokenized[k].row)

C23_Witness ==
    /\ drawpc = "key"
    /\ dhighlighter = 1
    /\ dscroll_row = 2
    /\ dlines = << <<"/", "*">>, <<"a">>, <<"a">> >>
    /\ Len(tokenized) = 1
    /\ tokenized[1].state.in_multiline_comment

(***************************************************************************)
(* Properties of the editor's commands.                                    *)
(***************************************************************************)
Modified == editor.buffer.modified

\* The words of the command line, written as the user types them.
QuitCommands == {<<"q">>, <<"q", "u", "i", "t">>}

ForceQuitCommands == {<<"q", "!">>, <<"q", "u", "i", "t", "!">>}

\* This step executes the command line, which holds one of `commands`.
Executes(commands) ==
    /\ editor.mode = "Command"
    /\ editor.command_buffer \in commands
    /\ handled' = Handled(Key("Enter"), "Command")

\* This step handles Ctrl+q in Normal mode.
PressesCtrlQ == editor.mode = "Normal" /\ handled' = Handled(Ctrl("q"), "Normal")

Refused ==
    /\ ~editor'.quit
    /\ editor'.message.text = "Unsaved changes! Use :q! to force quit"
    /\ editor'.buffer = editor.buffer

\* C24: :q, :quit and Ctrl+q on a modified buffer do not set quit, set the
\* message about unsaved changes and leave the buffer as it is; on an
\* unmodified buffer they set quit; :q! and :quit! set quit in either case.
C24_QuitGuard ==
    [][/\ (Executes(QuitCommands) \/ PressesCtrlQ) =>
              IF Modified THEN Refused ELSE editor'.quit
       /\ Executes(ForceQuitCommands) => editor'.quit]_vars

C24_Witness ==
    /\ handled = Handled(Key("Enter"), "Command")
    /\ editor.command_buffer = <<"q", "u", "i", "t">>
    /\ Modified
    /\ ~editor.quit
    /\ editor.message.text = "Unsaved changes! Use :q! to force quit"

\* The command line that was executed last held `command`.
Executed(command) ==
    /\ handled = Handled(Key("Enter"), "Command")
    /\ editor.command_buffer = command

\* C25: when :wq has set quit, the buffer has a file it was written to and
\* is not modified.
C25_WqSavesBeforeQuit ==
    (Executed(<<"w", "q">>) /\ editor.quit) =>
        (editor.buffer.path # NoPath /\ ~Modified)

(***************************************************************************)
(* Properties of the cursor keys.                                          *)
(***************************************************************************)
\* This step handles `key` in `mode`.
Presses(key, mode) == editor.mode = mode /\ handled' = Handled(key, mode)

CurrentLine(ed) == ed.buffer.lines[ed.cursor_row + 1]

\* C26: 'A' in Normal mode enters Insert mode with cursor_col equal to the
\* length of the current line; 'a' enters Insert mode with the cursor one
\* column to the right of the character it was on.
C26_AppendAfter ==
    [][/\ Presses(Char("A"), "Normal") =>
              /\ editor'.mode = "Insert"
              /\ editor'.cursor_row = editor.cursor_row
              /\ editor'.cursor_col = Len(CurrentLine(editor))
       /\ (Presses(Char("a"), "Normal") /\ CurrentLine(editor) # << >>) =>
              /\ editor'.mode = "Insert"
              /\ editor'.cursor_row = editor.cursor_row
              /\ editor'.cursor_col = editor.cursor_col + 1]_vars

(***************************************************************************)
(* Properties of the search.                                               *)
(***************************************************************************)
Cursor(ed) == <<ed.cursor_row, ed.cursor_col>>

\* The places of the buffer where the search pattern stands.
Matches(ed) ==
    {m \in UNION {{<<row, col>> : col \in 0 .. Len(ed.buffer.lines[row + 1])} :
                      row \in 0 .. Len(ed.buffer.lines) - 1} :
        LET text == ed.buffer.lines[m[1] + 1]
        IN  /\ m[2] + Len(ed.search_buffer) <= Len(text)
            /\ Slice(text, m[2], m[2] + Len(ed.search_buffer)) = ed.search_buffer}

Precedes(p, q) == p[1] < q[1] \/ (p[1] = q[1] /\ p[2] < q[2])

FirstOf(places) == CHOOSE p \in places : \A q \in places : q = p \/ Precedes(p, q)

LastOf(places) == CHOOSE p \in places : \A q \in places : q = p \/ Precedes(q, p)

NearestBefore(ed) ==
    LET before == {m \in Matches(ed) : Precedes(m, Cursor(ed))}
    IN  IF before # {} THEN LastOf(before) ELSE LastOf(Matches(ed))

NearestAfter(ed) ==
    LET after == {m \in Matches(ed) : Precedes(Cursor(ed), m)}
    IN  IF after # {} THEN FirstOf(after) ELSE FirstOf(Matches(ed))

\* This step handles Enter on a pattern that stands somewhere in the buffer,
\* in a search that `start` began.
Submits(start) ==
    /\ Presses(Key("Enter"), "Search")
    /\ editor.search_direction = (IF start = "?" THEN -1 ELSE 1)
    /\ editor.search_buffer # << >>
    /\ Matches(editor) # {}

\* C27: Enter in a search started with '?' moves the cursor to the nearest
\* match before it, or to the last match of the buffer when there is none
\* before it; in a search started with '/' it moves the cursor to the
\* nearest match after it, or to the first match of the buffer.
C27_SearchDirection ==
    [][/\ Submits("?") => Cursor(editor') = NearestBefore(editor)
       /\ Submits("/") => Cursor(editor') = NearestAfter(editor)]_vars

(***************************************************************************)
(* Properties of the cursor.                                               *)
(***************************************************************************)
Max(a, b) == IF a >= b THEN a ELSE b

\* C30: after every key handled in any mode the cursor is on a line of the
\* buffer, and its column is at most the length of that line in Insert
\* mode and at most max(length - 1, 0) in every other mode.
C30_CursorValid ==
    /\ editor.cursor_row < Len(editor.buffer.lines)
    /\ editor.cursor_col <= IF editor.mode = "Insert"
                            THEN Len(CurrentLine(editor))
                            ELSE Max(Len(CurrentLine(editor)) - 1, 0)

C30_Witness ==
    /\ editor.mode = "Normal"
    /\ Modified
    /\ Len(CurrentLine(editor)) >= 2
    /\ editor.cursor_col = Len(CurrentLine(editor)) - 1

(***************************************************************************)
(* Properties of the browser.                                              *)
(***************************************************************************)
InsideListing == browser.entries # << >> => browser.selected < Len(browser.entries)

\* C28: whenever the listing is not empty the selection is an index of it;
\* move_up at index 0 and move_down at the last index leave the selection
\* as it is.
C28_SelectionInside ==
    /\ []InsideListing
    /\ [][/\ (brlast'.op = "move_up" /\ browser.selected = 0) =>
                 browser'.selected = browser.selected
          /\ (brlast'.op = "move_down" /\ browser.selected + 1 = Len(browser.entries)) =>
                 browser'.selected = browser.selected]_vars

(***************************************************************************)
(* Properties of the state threaded from line to line.                     *)
(***************************************************************************)
\* C29: in every state a caller holds between two calls, having started
\* from the default state and kept one language, in_multiline_comment and
\* in_string are not both set, in_multiline_comment is set only for a
\* language with a multi-line comment, and in_string holds nothing but a
\* string delimiter of the language.
C29_ThreadedStateWellFormed ==
    /\ ~(state.in_multiline_comment /\ state.in_string # NoChar)
    /\ state.in_multiline_comment =>
           (language # NoLanguage /\ Lang.multi_line_comment # NoMultiLine)
    /\ state.in_string # NoChar =>
           (language # NoLanguage /\ state.in_string \in Lang.string_delimiters)

\* A line that closes the string left open by the lines before it and
\* opens a comment.
C29_Witness ==
    /\ pc = "thread"
    /\ entry.in_string = "'"
    /\ state.in_multiline_comment
    /\ state.in_string = NoChar


(***************************************************************************)
(* The session specification: the editor is started on nothing, on a file  *)
(* or on a directory, a buffer of up to SessionMaxSize is edited, saved    *)
(* and replaced through the keys, the command line and the browser, while  *)
(* the file system may fail at every call, and every key is recorded.      *)
(***************************************************************************)
SessionMaxSize == 2

SessionCommands ==
    {<<"q">>, <<"q", "!">>, <<"w">>, <<"w", "q">>, <<"w", " ", "b">>, <<"e">>,
     <<"e", " ", "b">>}

SessionLimits == Limits(SessionMaxSize, SessionCommands, {<< >>}, TRUE)

SessionNormalKeys == {Char("i"), Char("x"), Char("e"), Char(":"), Ctrl("q"), Ctrl("s")}

SessionInsertKeys == {Char("a"), Key("Escape"), Ctrl("s")}

SessionCommandKeys ==
    {Char(c) : c \in {"q", "!", "w", " ", "b", "e"}}
        \cup {Key(k) : k \in {"Escape", "Enter", "Backspace"}}

\* run_editor, main.rs 100-120: Editor::new, and Editor::open of a path that
\* exists, whose error ends the program before Editor::run.
SessionInit ==
    /\ \/ editor = EditorNew
       \/ \E io \in EdIos : io.io_ok /\ editor = open(EditorNew, EnteredPath, io).editor
    /\ Within(editor, SessionLimits)
    /\ exit = "running"
    /\ handled = NoHandled
    /\ previous = NoBefore
    /\ IdleExceptEd

SessionNext ==
    \/ HandleNormalKey(SessionNormalKeys, SessionLimits)
    \/ HandleInsertKey(SessionInsertKeys, SessionLimits)
    \/ HandleCommandKey(SessionCommandKeys, SessionLimits)
    \/ HandleBrowserKey(BrowserKeys, SessionLimits)

SpecSession == SessionInit /\ [][SessionNext]_vars

(***************************************************************************)
(* Properties of the session.                                              *)
(***************************************************************************)
\* C31: the editor is in Browser mode exactly when it holds a browser, in
\* every state the keys and open reach.
C31_BrowserModeIffBrowser == (editor.mode = "Browser") <=> editor.browser

\* A file was entered in the browser: the browser is gone and the mode is
\* Normal again.
C31_Witness ==
    /\ handled = Handled(Key("Enter"), "Browser")
    /\ editor.mode = "Normal"
    /\ ~editor.browser
    /\ editor.buffer.path = EnteredPath


(***************************************************************************)
(* The view specification: pass after pass of the loop of Editor::run, the *)
(* terminal reports any size of 0 to ViewMaxRows rows and 0 to ViewMaxCols *)
(* columns, draw_editor updates the scroll offsets and positions the       *)
(* cursor, and a key moves the cursor anywhere within ViewMaxCursor.       *)
(***************************************************************************)
ViewMaxRows == 4

ViewMaxCols == 7

ViewMaxCursor == 3

\* let gutter_width = 5, editor.rs 678, 904
GutterWidth == 5

\* Editor::update_scroll, editor.rs 903-911: the new scroll_col
update_scroll_col(cursor_col, scroll_col, cols) ==
    LET visible_width == saturating_sub(cols, GutterWidth)
    IN  IF cursor_col < scroll_col THEN cursor_col
        ELSE IF cursor_col >= scroll_col + visible_width THEN cursor_col - visible_width + 1
        ELSE scroll_col

\* Editor::new, editor.rs 38-59, at the top of the loop of Editor::run
ViewInit ==
    /\ vrows = 0
    /\ vcols = 0
    /\ vcursor_row = 0
    /\ vcursor_col = 0
    /\ vscroll_row = 0
    /\ vscroll_col = 0
    /\ viewpc = "size"
    /\ IdleExceptView

\* self.size = Terminal::size()?, editor.rs 82, and draw_editor up to
\* update_scroll, editor.rs 675-681
ViewScroll ==
    /\ viewpc = "size"
    /\ \E rows \in 0 .. ViewMaxRows : \E cols \in 0 .. ViewMaxCols :
           /\ vrows' = rows
           /\ vcols' = cols
           /\ vscroll_row' = update_scroll(vcursor_row, vscroll_row, saturating_sub(rows, 2))
           /\ vscroll_col' = update_scroll_col(vcursor_col, vscroll_col, cols)
    /\ viewpc' = "scrolled"
    /\ UNCHANGED <<vcursor_row, vcursor_col>>
    /\ UNCHANGED exceptView

\* Position cursor, editor.rs 748-752: a subtraction of usize values that
\* goes below zero panics in a build with overflow checks and wraps around
\* in a build without.
ViewPosition ==
    /\ viewpc = "scrolled"
    /\ IF vcursor_row < vscroll_row \/ vcursor_col < vscroll_col
       THEN viewpc' \in {"panic", "key"}
       ELSE viewpc' = "key"
    /\ UNCHANGED <<vrows, vcols, vcursor_row, vcursor_col, vscroll_row, vscroll_col>>
    /\ UNCHANGED exceptView

\* handle_key, editor.rs 88-90: a key moves the cursor within the buffer
\* and leaves the scroll offsets alone.
ViewKey ==
    /\ viewpc = "key"
    /\ vcursor_row' \in 0 .. ViewMaxCursor
    /\ vcursor_col' \in 0 .. ViewMaxCursor
    /\ viewpc' = "size"
    /\ UNCHANGED <<vrows, vcols, vscroll_row, vscroll_col>>
    /\ UNCHANGED exceptView

\* Editor::open on a file, editor.rs 66-72, from a key
ViewOpen ==
    /\ viewpc = "key"
    /\ vcursor_row' = 0
    /\ vcursor_col' = 0
    /\ vscroll_row' = 0
    /\ vscroll_col' = 0
    /\ viewpc' = "size"
    /\ UNCHANGED <<vrows, vcols>>
    /\ UNCHANGED exceptView

ViewNext ==
    \/ ViewScroll
    \/ ViewPosition
    \/ ViewKey
    \/ ViewOpen

SpecView == ViewInit /\ [][ViewNext]_vars

(***************************************************************************)
(* Properties of the view.                                                 *)
(***************************************************************************)
\* C32: after update_scroll in draw_editor the scroll offsets are at most
\* the cursor's row and column, for every terminal size, and when the
\* content height is at least 1 the cursor's row is below scroll_row +
\* content height.
C32_ScrollWithinCursor ==
    viewpc = "scrolled" =>
        /\ vscroll_row <= vcursor_row
        /\ vscroll_col <= vcursor_col
        /\ saturating_sub(vrows, 2) >= 1 =>
               vcursor_row < vscroll_row + saturating_sub(vrows, 2)


(***************************************************************************)
(* The insert specification: a file of up to InsertMaxSize bytes is opened *)
(* and text is typed, split and joined in Insert mode with the cursor      *)
(* moved anywhere; every key and the Editor before it are recorded.        *)
(***************************************************************************)
InsertMaxSize == 4

InsertContents == UNION {[1 .. n -> {"a", "\n"}] : n \in 0 .. InsertMaxSize}

InsertFiles == {read_lines(content, << >>) : content \in InsertContents}

InsertLimits == Trailing(Limits(InsertMaxSize, {<< >>}, {<< >>}, TRUE))

InsertNormalKeys == {Char("i")}

InsertInsertKeys ==
    {Char("a")} \cup {Key(k) : k \in {"Enter", "Backspace", "Left", "Right", "Up", "Down",
                                      "Escape"}}

InsertInit ==
    /\ \/ editor = EditorNew
       \/ \E read \in InsertFiles :
              editor = open(EditorNew, EnteredPath, Io(TRUE, FALSE, read)).editor
    /\ Within(editor, InsertLimits)
    /\ exit = "running"
    /\ handled = NoHandled
    /\ previous = NoBefore
    /\ IdleExceptEd

InsertNext ==
    \/ HandleNormalKey(InsertNormalKeys, InsertLimits)
    \/ HandleInsertKey(InsertInsertKeys, InsertLimits)

SpecInsert == InsertInit /\ [][InsertNext]_vars

(***************************************************************************)
(* Properties of Insert mode.                                              *)
(***************************************************************************)
\* C33: in Insert mode the step that handles Backspace right after Enter
\* was handled leaves the lines and the cursor as they were before Enter,
\* and the step that handles Backspace at row 0, column 0 leaves the
\* buffer, its modified flag included, as it is.
C33_EnterBackspaceIdentity ==
    [][/\ (handled = Handled(Key("Enter"), "Insert") /\ Presses(Key("Backspace"), "Insert")) =>
              /\ editor'.buffer.lines = previous.editor.buffer.lines
              /\ editor'.cursor_row = previous.editor.cursor_row
              /\ editor'.cursor_col = previous.editor.cursor_col
       /\ (Presses(Key("Backspace"), "Insert") /\ editor.cursor_row = 0
              /\ editor.cursor_col = 0) =>
              editor'.buffer = editor.buffer]_vars

\* Backspace after Enter in the middle of a line.
C33_Witness ==
    /\ handled = Handled(Key("Backspace"), "Insert")
    /\ previous.handled = Handled(Key("Enter"), "Insert")
    /\ editor.cursor_col > 0
    /\ editor.cursor_col < Len(CurrentLine(editor))


(***************************************************************************)
(* The search specification: a file of up to SearchMaxSize characters,     *)
(* some of them two bytes long in UTF-8, is opened, the cursor is moved    *)
(* and the pattern "a" is searched with /, ?, n and N; every key is        *)
(* recorded.                                                               *)
(***************************************************************************)
SearchMaxSize == 4

SearchContents == UNION {[1 .. n -> {"a", "b", TwoByteChar, "\n"}] : n \in 0 .. SearchMaxSize}

SearchFiles == {read_lines(content, << >>) : content \in SearchContents}

SearchLimits == Limits(SearchMaxSize, {<< >>}, {<<"a">>}, TRUE)

SearchNormalKeys == {Char(c) : c \in {"h", "j", "k", "l", "/", "?", "n", "N"}}

SearchSearchKeys == {Char("a")} \cup {Key(k) : k \in {"Escape", "Enter"}}

SearchInit ==
    /\ \E read \in SearchFiles :
           editor = open(EditorNew, EnteredPath, Io(TRUE, FALSE, read)).editor
    /\ Within(editor, SearchLimits)
    /\ exit = "running"
    /\ handled = NoHandled
    /\ previous = NoBefore
    /\ IdleExceptEd

SearchNext ==
    \/ HandleNormalKey(SearchNormalKeys, SearchLimits)
    \/ HandleSearchKey(SearchSearchKeys, SearchLimits)

SpecSearch == SearchInit /\ [][SearchNext]_vars

\* This step handles a key that searches for a pattern that stands
\* somewhere in the buffer.
Searches ==
    /\ \/ Presses(Key("Enter"), "Search")
       \/ Presses(Char("n"), "Normal")
       \/ Presses(Char("N"), "Normal")
    /\ editor.search_buffer # << >>
    /\ Matches(editor) # {}

\* C34: after Enter in Search mode, n or N on a pattern that stands in the
\* buffer, the editor runs on with the cursor on the match nearest after
\* or nearest before where it was, its column counted in characters of
\* the matched line, whatever characters stand before the match.
C34_SearchColumnInCodepoints ==
    [][Searches =>
           /\ exit' = "running"
           /\ Cursor(editor') \in {NearestAfter(editor), NearestBefore(editor)}]_vars


(***************************************************************************)
(* Properties of the single-line comment.                                  *)
(***************************************************************************)
\* Where token k of the returned tokens starts in the line.
TokenStart(k) == Len(ConcatTexts(SubSeq(tokens, 1, k - 1)))

\* Position p is inside a String, Char, Attribute or Comment token that
\* starts before p.
InsideLiteral(p) ==
    \E k \in 1 .. Len(tokens) :
        /\ tokens[k].token_type \in {"String", "Char", "Attribute", "Comment"}
        /\ TokenStart(k) < p
        /\ p < TokenStart(k) + Len(tokens[k].text)

\* C35: wherever the single-line comment marker of the language stands on
\* a line entered in the default state, outside every String, Char,
\* Attribute and Comment token begun before it, a Comment token starts
\* there and runs to the end of the line, whatever stands before the marker.
C35_CommentMarkerRecognised ==
    (EnteredAtDefault /\ Lang.single_line_comment # NoMarker) =>
        \A p \in Occurrences(chars, Lang.single_line_comment, 0) :
            ~InsideLiteral(p) =>
                /\ tokens # << >>
                /\ tokens[Len(tokens)].token_type = "Comment"
                /\ TokenStart(Len(tokens)) = p


(***************************************************************************)
(* Properties of the modified flag.                                        *)
(***************************************************************************)
\* C36: the modified flag turns true only when content changes: a step of
\* any Buffer operation that leaves the lines as they are, such as
\* insert_char on a valid row with a column past the end of the line, does
\* not set it.
C36_ModifiedOnlyOnChange ==
    [][(buffer'.lines = buffer.lines /\ ~buffer.modified) => ~buffer'.modified]_vars


(***************************************************************************)
(* The opening specification: Editor::open is called again and again on a  *)
(* file with or without a known extension or on a directory, and succeeds  *)
(* or fails; between the calls the cursor is moved within the buffer and   *)
(* the frames scroll by up to OpenMaxScroll.                               *)
(***************************************************************************)
OpenMaxScroll == 1

OpenPaths == {"a.rs", "b.txt", EnteredPath}

\* handle_key and draw_editor between two calls of open: the cursor is
\* somewhere in the buffer, the scroll offsets are at most the cursor.
OpenMove ==
    /\ exit = "running"
    /\ editor.mode = "Normal"
    /\ \E row \in 0 .. Len(editor.buffer.lines) - 1 :
       \E col \in 0 .. Max(Len(editor.buffer.lines[row + 1]) - 1, 0) :
       \E scroll_row \in 0 .. Min({row, OpenMaxScroll}) :
       \E scroll_col \in 0 .. Min({col, OpenMaxScroll}) :
           editor' = [editor EXCEPT !.cursor_row = row, !.cursor_col = col,
                                    !.scroll_row = scroll_row, !.scroll_col = scroll_col]
    /\ handled' = Handled(Key("None"), editor.mode)
    /\ UNCHANGED <<exit, previous>>
    /\ UNCHANGED exceptEd

\* editor.open(&p)?, main.rs 105, and self.open(&path)?, editor.rs 409: an
\* error ends the program.
OpenCall ==
    /\ exit = "running"
    /\ \E path \in OpenPaths : \E io \in EdIos : \E r \in {open(editor, path, io)} :
           /\ editor' = r.editor
           /\ exit' = IF r.ok THEN "running" ELSE "Err"
    /\ handled' = Handled(Key("open"), editor.mode)
    /\ UNCHANGED previous
    /\ UNCHANGED exceptEd

\* Escape or q in the browser, editor.rs 346-349
OpenLeaveBrowser ==
    /\ exit = "running"
    /\ editor.mode = "Browser"
    /\ \E r \in {handle_browser_key(editor, Key("Escape"), NoIo)} : editor' = r.editor
    /\ handled' = Handled(Key("Escape"), editor.mode)
    /\ UNCHANGED <<exit, previous>>
    /\ UNCHANGED exceptEd

OpenInit ==
    /\ editor = EditorNew
    /\ exit = "running"
    /\ handled = NoHandled
    /\ previous = NoBefore
    /\ IdleExceptEd

OpenNext ==
    \/ OpenMove
    \/ OpenCall
    \/ OpenLeaveBrowser

SpecOpen == OpenInit /\ [][OpenNext]_vars

(***************************************************************************)
(* Properties of a failed load.                                            *)
(***************************************************************************)
\* C37: a call of Editor::open that fails, Buffer::from_file on a file or
\* Browser::new on a directory, leaves the editor's buffer, highlighter,
\* cursor, scroll offsets and mode exactly as they were before the call.
C37_FailedOpenChangesNothing ==
    [][(exit = "running" /\ exit' = "Err") =>
           /\ editor'.buffer = editor.buffer
           /\ editor'.highlighter = editor.highlighter
           /\ editor'.cursor_row = editor.cursor_row
           /\ editor'.cursor_col = editor.cursor_col
           /\ editor'.scroll_row = editor.scroll_row
           /\ editor'.scroll_col = editor.scroll_col
           /\ editor'.mode = editor.mode]_vars

\* open has failed on an editor that holds a Rust file and has moved and
\* scrolled.
C37_Witness ==
    /\ exit = "Err"
    /\ handled = Handled(Key("open"), "Normal")
    /\ editor.buffer.path = "a.rs"
    /\ editor.highlighter # NoLanguage
    /\ editor.cursor_row > 0
    /\ editor.scroll_row > 0


(***************************************************************************)
(* Properties of a failed save or open during the session.                 *)
(***************************************************************************)
\* The commands that end the session.
LeavingCommands == QuitCommands \cup ForceQuitCommands \cup {<<"w", "q">>}

\* C38: no step leaves the loop of Editor::run with the error of a save
\* (Ctrl+s, :w, :w <file>, :wq) or an open (:e <file>, Enter in the
\* browser): the editor runs on; the loop is left only by a step that
\* executes :q, :q!, :wq or handles Ctrl+q.
C38_IoFailureNotFatal ==
    [][/\ exit' # "Err"
       /\ (exit = "running" /\ exit' # "running") =>
              (Executes(LeavingCommands) \/ PressesCtrlQ)]_vars

=============================================================================
